---------------------------- MODULE Spec2Model ----------------------------
(***************************************************************************)
(* A model of the YAML validation / editing-intelligence core of           *)
(* quarto-cli:                                                             *)
(*   - the schema registry (schema.ts: definitionsObject and its           *)
(*     accessors; definitions.ts: define),                                 *)
(*   - the error-recovery reparse generator (parsing.ts:                   *)
(*     attemptParsesAtLine),                                               *)
(*   - the pure schema functions (schema.ts: schemaType, walkSchema,       *)
(*     normalizeSchema, schemaCompletions),                                *)
(*   - the diagnostic pipeline (errors.ts: setDefaultErrorHandlers and     *)
(*     the six default handlers),                                          *)
(*   - the indentation locator (parsing.ts: getYamlIndentTree,             *)
(*     locateFromIndentation),                                             *)
(*   - the asynchronous functions, with the interleavings of their calls   *)
(*     at the awaits: getTreeSitter (parsing.ts), defineCached             *)
(*     (definitions.ts), the dev-server watcher's reloadClients and        *)
(*     connect (watch.ts), makeInstallerMac (installer.ts).                *)
(* Each component has its own specification (SpecRegistry, SpecParse,      *)
(* SpecSchema, SpecErrors, SpecSimilarKey, SpecIndent, SpecIndentFair,     *)
(* SpecTreeSitter, SpecDefineCached, SpecWatch, SpecInstaller); the        *)
(* variables of the other components stay at their idle values.            *)
(***************************************************************************)
EXTENDS Integers, Sequences, FiniteSets, TLC

VARIABLES
  \* ---- schema registry (schema.ts) ----
  definitionsObject,  \* own properties of the registry object: $id -> schema
  firstReg,           \* history: $id -> argument of the first registration call
  last,               \* history: the last registry call and its outcome
  returnedObject,     \* the object getSchemaDefinitionsObject gave its caller
  \* ---- attemptParsesAtLine (parsing.ts) ----
  code,               \* the buffer, as the sequence of its lines' lengths
  position,           \* cursor [row, column], 0-based
  pc,                 \* where the generator stands
  currentColumn,      \* local of the generator
  deletions,          \* local of the generator
  yielded,            \* elements handed to the consumer so far
  parsed,             \* texts handed to parser.parse so far
  firstClean,         \* history: the full-buffer parse was clean
  faulted,            \* history: parser.parse has thrown
  \* ---- pure schema functions (schema.ts) ----
  schema,             \* the input schema
  op,                 \* the function applied last
  result,             \* its result
  heap,               \* the objects in memory: address -> node
  returned,           \* the addresses of the objects normalizeSchema returned
  \* ---- diagnostic pipeline (errors.ts) ----
  handlers,           \* the validator's handler list, in registration order
  created,            \* history: the LocalizedError as the validator made it
  error,              \* the error handed from one handler to the next
  subSchema,          \* the candidate sub-schemas at the error's instance path
  handled,            \* handlers run so far
  received,           \* history: the argument of the last handler call ...
  receivedAfter,      \* ... and the content of that object after the call
  \* ---- indentation locator (parsing.ts) ----
  yamlLines,          \* the lines of the buffer (ls)
  context,            \* the request: indent of the editing line, cursor row
  indentTree,         \* local: what getYamlIndentTree returned
  lpc,                \* where locateFromIndentation stands
  lineNo,             \* local of locateFromIndentation
  path,               \* local of locateFromIndentation, then its result
  visited,            \* history: the values lineNo has taken
  \* ---- getTreeSitter (parsing.ts) ----
  _parser,            \* the module-level parser: 0 (undefined) or a parser
  parsers,            \* the parsers constructed so far: has each a language?
  inits,              \* history: how many times Parser.init was invoked
  tpc,                \* where each getTreeSitter call stands
  tsRet,              \* what each call resolved to, if it has
  tsFaulted,          \* history: a step of the initialisation has failed
  injected,           \* history: setTreeSitter was called
  \* ---- defineCached (definitions.ts) ----
  thunk,              \* what the thunk resolves to: schema and errorHandlers
  cachedSchema,       \* the closure's `schema`, shared by the invocations
  dpc,                \* where each invocation of the returned function stands
  funIndex,           \* each invocation's position in its errorHandlers loop
  thunks,             \* history: how many times the thunk was evaluated
  writes,             \* history: how many times the registry was written
  added,              \* history: the addValidatorErrorHandler calls, in order
  dcRet,              \* what each invocation resolved to, if it has
  \* ---- dev-server watcher (watch.ts) ----
  clients,            \* the client list, in connection order
  modified,           \* the paths modified since the last reload
  sent,               \* sockets on which a reload send was attempted
  closed,             \* sockets that were closed
  rpc,                \* where each reloadClients run stands
  ri,                 \* each run's loop index i
  rsocket,            \* each run's `socket`
  rstart,             \* history: the clients listed when each run started
  rleft,              \* history: the modified paths left when each run ended
  removed,            \* history: the clients spliced out of the list
  unnotified,         \* history: those spliced out before any send to them
  \* ---- makeInstallerMac (installer.ts) ----
  ipc,                \* the command makeInstallerMac is awaiting
  invoked,            \* history: the commands started, in order
  succeeded,          \* history: the commands that ended without error
  reported,           \* history: what each notarization poll reported
  waitReturned,       \* history: waitForNotaryStatus has returned
  failure             \* history: the command at which the function threw

regVars == <<definitionsObject, firstReg, last, returnedObject>>
parseVars == <<code, position, pc, currentColumn, deletions, yielded, parsed,
               firstClean, faulted>>
schemaVars == <<schema, op, result, heap, returned>>
errVars == <<handlers, created, error, subSchema, handled, received,
             receivedAfter>>
indentVars == <<yamlLines, context, indentTree, lpc, lineNo, path, visited>>
tsVars == <<_parser, parsers, inits, tpc, tsRet, tsFaulted, injected>>
dcVars == <<thunk, cachedSchema, dpc, funIndex, thunks, writes, added, dcRet>>
watchVars == <<clients, modified, sent, closed, rpc, ri, rsocket, rstart,
               rleft, removed, unnotified>>
instVars == <<ipc, invoked, succeeded, reported, waitReturned, failure>>
asyncVars == <<tsVars, dcVars, watchVars, instVars>>
instRest == <<regVars, parseVars, schemaVars, errVars, indentVars, tsVars,
              dcVars, watchVars>>
tsRest == <<regVars, parseVars, schemaVars, errVars, indentVars, dcVars,
            watchVars, instVars>>
watchRest == <<regVars, parseVars, schemaVars, errVars, indentVars, tsVars,
               dcVars, instVars>>
dcRest == <<firstReg, last, returnedObject, parseVars, schemaVars, errVars, indentVars, tsVars,
           watchVars, instVars>>
vars == <<definitionsObject, firstReg, last, returnedObject, code, position, pc,
          currentColumn, deletions, yielded, parsed, firstClean, faulted,
          schema, op, result, heap, returned, handlers, created, error, subSchema, handled,
          received, receivedAfter, yamlLines, context, indentTree, lpc, lineNo, path,
          visited,
          _parser, parsers, inits, tpc, tsRet, tsFaulted, injected,
          thunk, cachedSchema, dpc, funIndex, thunks, writes, added, dcRet,
          clients, modified, sent, closed, rpc, ri, rsocket, rstart, rleft,
          removed, unnotified,
          ipc, invoked, succeeded, reported, waitReturned, failure>>

(***************************************************************************)
(* Bounds of the model.                                                    *)
(***************************************************************************)
NumContents == 2    \* distinct schema bodies that may be registered under an id
MaxLines == 2       \* lines of a buffer
MaxLineLen == 2     \* characters of a line (its newline not counted)
MaxBranches == 2    \* branches of an anyOf / oneOf / allOf list

(***************************************************************************)
(*                         THE SCHEMA REGISTRY                             *)
(***************************************************************************)

\* Schema ids used as keys.  "constructor" stands for the names every object
\* literal inherits from Object.prototype (constructor, toString, valueOf,
\* hasOwnProperty, ...): the registry is created by `{}`.
SchemaIds == {"schema-a", "schema-b"}
ObjectPrototypeKeys == {"constructor"}
Keys == SchemaIds \cup ObjectPrototypeKeys

Contents == 1..NumContents
RegSchemas == [id : Keys, content : Contents]

\* The JavaScript values a property read of the registry can give besides a
\* registered schema.
Undefined == [jsvalue |-> "undefined"]
InheritedMember == [jsvalue |-> "Object.prototype member"]

\* const definitionsObject: Record<string, Schema> = {};
EmptyObject == [k \in {} |-> Undefined]

\* definitionsObject[key]: an own property, else the member inherited from
\* Object.prototype, else undefined.
PropertyRead(obj, key) ==
  IF key \in DOMAIN obj THEN obj[key]
  ELSE IF key \in ObjectPrototypeKeys THEN InheritedMember
  ELSE Undefined

\* definitionsObject[key] = value
PropertyWrite(obj, key, value) ==
  [k \in (DOMAIN obj) \cup {key} |-> IF k = key THEN value ELSE obj[k]]

hasSchemaDefinition(obj, key) == PropertyRead(obj, key) # Undefined

getSchemaDefinitionThrows(obj, key) == PropertyRead(obj, key) = Undefined

getSchemaDefinition(obj, key) == PropertyRead(obj, key)

\* Mutant of setSchemaDefinition: the last registration wins.
setSchemaDefinitionOverwrite(obj, s) == PropertyWrite(obj, s.id, s)

\* The registry after setSchemaDefinition(schema).
setSchemaDefinition(obj, s) ==
  IF PropertyRead(obj, s.id) = Undefined
  THEN PropertyWrite(obj, s.id, s)
  ELSE obj

\* The registry after define(schema); withValidator(normalizeSchema(schema))
\* compiles a validator and does not touch the registry.
define(obj, s) ==
  IF ~hasSchemaDefinition(obj, s.id)
  THEN setSchemaDefinition(obj, s)
  ELSE obj

\* History: the argument of the first registration call made for each $id.
NoteFirst(s) ==
  IF s.id \in DOMAIN firstReg THEN firstReg
  ELSE [k \in (DOMAIN firstReg) \cup {s.id} |-> IF k = s.id THEN s ELSE firstReg[k]]

NoCall == [op |-> "none", key |-> "", threw |-> FALSE, ret |-> Undefined,
           has |-> FALSE, wasOwn |-> FALSE, unchanged |-> TRUE]

\* History: the call `o` on `key`, made on registry `before` and leaving `after`.
Called(o, key, threw, ret, has, before, after) ==
  [op |-> o, key |-> key, threw |-> threw, ret |-> ret, has |-> has,
   wasOwn |-> key \in DOMAIN before, unchanged |-> (after = before)]

\* Nothing has been handed out yet.
NoObject == [given |-> FALSE, alias |-> FALSE, props |-> EmptyObject]

\* Mutant of getSchemaDefinitionsObject: the registry object itself.
getSchemaDefinitionsObjectLive(obj) ==
  [given |-> TRUE, alias |-> TRUE, props |-> obj]

\* schema.ts lines 217-220: Object.assign({}, definitionsObject) is a new
\* object with the registry's own properties.
getSchemaDefinitionsObject(obj) ==
  [given |-> TRUE, alias |-> FALSE, props |-> obj]

\* delete obj[key]
PropertyDelete(obj, key) == [k \in (DOMAIN obj) \ {key} |-> obj[k]]

GetSchemaDefinitionsObject ==
  /\ returnedObject' = getSchemaDefinitionsObject(definitionsObject)
  /\ UNCHANGED <<definitionsObject, firstReg, parseVars, schemaVars, errVars,
                 indentVars, asyncVars>>
  /\ last' = Called("getObject", "", FALSE, Undefined, FALSE,
                    definitionsObject, definitionsObject')

\* The caller adds a key to, or deletes a key from, the object it was given;
\* the registry changes with it when that object is the registry itself.
ChangeReturnedObject ==
  /\ returnedObject.given
  /\ \E s \in RegSchemas, remove \in BOOLEAN :
       LET props == IF remove
                    THEN PropertyDelete(returnedObject.props, s.id)
                    ELSE PropertyWrite(returnedObject.props, s.id, s)
       IN  /\ returnedObject' = [returnedObject EXCEPT !.props = props]
           /\ definitionsObject' = IF returnedObject.alias THEN props
                                   ELSE definitionsObject
           /\ last' = Called("change", s.id, FALSE, Undefined, FALSE,
                             definitionsObject, definitionsObject')
  /\ UNCHANGED <<firstReg, parseVars, schemaVars, errVars, indentVars,
                 asyncVars>>

SetSchemaDefinition ==
  \E s \in RegSchemas :
    /\ definitionsObject' = setSchemaDefinition(definitionsObject, s)
    /\ firstReg' = NoteFirst(s)
    /\ last' = Called("set", s.id, FALSE, s, FALSE,
                      definitionsObject, definitionsObject')
    /\ UNCHANGED <<returnedObject, parseVars, schemaVars, errVars,
                 indentVars,
                 asyncVars>>

Define ==
  \E s \in RegSchemas :
    /\ definitionsObject' = define(definitionsObject, s)
    /\ firstReg' = NoteFirst(s)
    /\ last' = Called("define", s.id, FALSE, s, FALSE,
                      definitionsObject, definitionsObject')
    /\ UNCHANGED <<returnedObject, parseVars, schemaVars, errVars,
                 indentVars,
                 asyncVars>>

GetSchemaDefinition ==
  \E key \in Keys :
    /\ UNCHANGED <<definitionsObject, firstReg, returnedObject, parseVars,
                 schemaVars, errVars,
                 indentVars,
                 asyncVars>>
    /\ last' = Called("get", key,
                      getSchemaDefinitionThrows(definitionsObject, key),
                      IF getSchemaDefinitionThrows(definitionsObject, key)
                      THEN Undefined
                      ELSE getSchemaDefinition(definitionsObject, key),
                      FALSE, definitionsObject, definitionsObject')

HasSchemaDefinition ==
  \E key \in Keys :
    /\ UNCHANGED <<definitionsObject, firstReg, returnedObject, parseVars,
                 schemaVars, errVars,
                 indentVars,
                 asyncVars>>
    /\ last' = Called("has", key, FALSE, Undefined,
                      hasSchemaDefinition(definitionsObject, key),
                      definitionsObject, definitionsObject')

\* Idle values of the other components' variables.
ParseIdle ==
  /\ code = <<>>
  /\ position = [row |-> 0, column |-> 0]
  /\ pc = "idle"
  /\ currentColumn = 0
  /\ deletions = 0
  /\ yielded = <<>>
  /\ parsed = <<>>
  /\ firstClean = FALSE
  /\ faulted = FALSE

SchemaIdle ==
  /\ schema = [type |-> "idle"]
  /\ op = "idle"
  /\ result = <<>>
  /\ heap = <<>>
  /\ returned = <<>>

RegIdle ==
  /\ definitionsObject = EmptyObject
  /\ firstReg = EmptyObject
  /\ last = NoCall
  /\ returnedObject = NoObject

ErrIdle ==
  /\ handlers = <<>>
  /\ created = [keyword |-> "idle"]
  /\ error = [keyword |-> "idle"]
  /\ subSchema = <<>>
  /\ handled = 0
  /\ received = [keyword |-> "idle"]
  /\ receivedAfter = [keyword |-> "idle"]

IndentIdle ==
  /\ yamlLines = <<>>
  /\ context = [lineIndent |-> 0, row |-> 0]
  /\ indentTree = [predecessor |-> <<>>, indentation |-> <<>>]
  /\ lpc = "idle"
  /\ lineNo = -1
  /\ path = <<>>
  /\ visited = <<>>

MaxCalls == 3
TsCalls == 1..MaxCalls
NotResolved == [parser |-> 0, hadLanguage |-> FALSE, afterFault |-> FALSE]

TsIdle ==
  /\ _parser = 0
  /\ parsers = <<>>
  /\ inits = 0
  /\ tpc = [c \in TsCalls |-> "idle"]
  /\ tsRet = [c \in TsCalls |-> NotResolved]
  /\ tsFaulted = FALSE
  /\ injected = FALSE

MaxInvocations == 2
Invocations == 1..MaxInvocations
NoThunk == [schema |-> [id |-> "", content |-> 0], errorHandlers |-> <<>>]
NoRef == [ref |-> "", registered |-> FALSE]

DcIdle ==
  /\ thunk = NoThunk
  /\ cachedSchema = [id |-> "", content |-> 0]
  /\ dpc = [i \in Invocations |-> "idle"]
  /\ funIndex = [i \in Invocations |-> 0]
  /\ thunks = 0
  /\ writes = 0
  /\ added = <<>>
  /\ dcRet = [i \in Invocations |-> NoRef]

MaxClients == 3
MaxRuns == 2
MaxModified == 2
Sockets == 1..MaxClients
Runs == 1..MaxRuns

WatchIdle ==
  /\ clients = <<>>
  /\ modified = <<>>
  /\ sent = {}
  /\ closed = {}
  /\ rpc = [r \in Runs |-> "idle"]
  /\ ri = [r \in Runs |-> 0]
  /\ rsocket = [r \in Runs |-> 0]
  /\ rstart = [r \in Runs |-> {}]
  /\ rleft = [r \in Runs |-> 0]
  /\ removed = {}
  /\ unnotified = {}

InstIdle ==
  /\ ipc = "idle"
  /\ invoked = <<>>
  /\ succeeded = {}
  /\ reported = <<>>
  /\ waitReturned = FALSE
  /\ failure = ""

AsyncIdle == TsIdle /\ DcIdle /\ WatchIdle /\ InstIdle

InitRegistry ==
  RegIdle /\ ParseIdle /\ SchemaIdle /\ ErrIdle /\ IndentIdle /\ AsyncIdle

NextRegistry ==
  \/ SetSchemaDefinition
  \/ Define
  \/ GetSchemaDefinition
  \/ HasSchemaDefinition
  \/ GetSchemaDefinitionsObject
  \/ ChangeReturnedObject

SpecRegistry == InitRegistry /\ [][NextRegistry]_vars

(***************************************************************************)
(*                 attemptParsesAtLine  (parsing.ts)                       *)
(*                                                                         *)
(* A buffer is given by the lengths of its lines; its text is the sequence *)
(* of its characters, each character standing for its own offset in the    *)
(* buffer (so a text built from chunks of the buffer shows which offsets   *)
(* it kept, in which order).  Every line but the last ends in a newline    *)
(* character, which has an offset of its own.                              *)
(***************************************************************************)

RECURSIVE SumLens(_, _)
\* The characters of lines 0 .. r-1 (0-based), newlines included.
SumLens(lens, r) ==
  IF r <= 0 THEN 0
  ELSE SumLens(lens, r - 1)
       + (IF r \in DOMAIN lens THEN lens[r] + 1 ELSE 0)

\* code.value: the whole buffer.
CodeLength(lens) == SumLens(lens, Len(lens)) - 1

\* text.substring(start, end), as the offsets start .. end-1.
Substring(start, end) == [i \in 1..(end - start) |-> start + i - 1]

CodeValue(lens) == Substring(0, CodeLength(lens))

\* rangedLines(code.value, true)[row].range: the line with its newline.
LineRange(lens, row) ==
  [start |-> SumLens(lens, row),
   end |-> IF row + 1 = Len(lens) THEN CodeLength(lens)
           ELSE SumLens(lens, row + 1)]

\* rangedLines(code.value, true).length
NumCodeLines(lens) == Len(lens)

\* rowColToIndex(code.value)({row, column})
locF(lens, row, column) == SumLens(lens, row) + column

\* mappedString(code, chunks).value: the chunks' substrings, concatenated.
RECURSIVE MappedStringValue(_)
MappedStringValue(chunks) ==
  IF chunks = <<>> THEN <<>>
  ELSE Substring(Head(chunks).start, Head(chunks).end)
       \o MappedStringValue(Tail(chunks))

\* Mutant of RowOutside: the test for a negative row is missing.
RowOutsideNoNegative(row, n) == row >= n

\* parsing.ts line 80: the cursor lies outside the buffer's lines.
RowOutside(row, n) == row >= n \/ row < 0

\* Mutant of LoopCond: one iteration too many.
LoopCondOffByOne(c) == c >= 0

\* parsing.ts line 89: while (currentColumn > 0)
LoopCond(c) == c > 0

\* parsing.ts lines 93-117: the chunks of the reduced text after `dels`
\* deletions.
Chunks(lens, pos, dels) ==
  LET currentLine == LineRange(lens, pos.row)
      currentLineLength == currentLine.end - currentLine.start
      before == IF pos.row > 0
                THEN <<[start |-> 0, end |-> LineRange(lens, pos.row - 1).end]>>
                ELSE <<>>
      onLine == IF pos.column > dels
                THEN <<[start |-> locF(lens, pos.row, 0),
                        end |-> locF(lens, pos.row, pos.column - dels)]>>
                ELSE <<>>
      after == IF pos.row + 1 < NumCodeLines(lens)
               THEN <<[start |-> locF(lens, pos.row, currentLineLength - 1),
                       end |-> locF(lens, pos.row + 1, 0)],
                      [start |-> LineRange(lens, pos.row + 1).start,
                       end |-> LineRange(lens, NumCodeLines(lens) - 1).end]>>
               ELSE <<>>
  IN  before \o onLine \o after

\* parsing.ts line 118: newCode.value
NewCode(lens, pos, dels) == MappedStringValue(Chunks(lens, pos, dels))

\* What parser.parse does with a text: a clean tree, a tree whose root is
\* ERROR, or an exception.
ParserOutcomes == {"clean", "ERROR", "fault"}

\* parsing.ts lines 75-89, up to the first test of the loop: where the
\* generator goes after the full-buffer attempt.  codeLines[position.row] of
\* a row outside the lines is undefined, and reading its .substring throws.
AfterFullParse(lens, pos) ==
  IF RowOutside(pos.row, NumCodeLines(lens)) THEN "done"
  ELSE IF ~(pos.row \in 0..(NumCodeLines(lens) - 1)) THEN "threw"
  ELSE IF LoopCond(pos.column) THEN "loop"
  ELSE "done"

\* parsing.ts lines 61-73 (and 75-89 when nothing is yielded): the consumer's
\* first next().
FullParse ==
  /\ pc = "start"
  /\ \E outcome \in ParserOutcomes :
       /\ parsed' = Append(parsed, CodeValue(code))
       /\ faulted' = (outcome = "fault")
       /\ firstClean' = (outcome = "clean")
       /\ yielded' = IF outcome = "clean"
                     THEN Append(yielded, [deletions |-> 0,
                                           code |-> CodeValue(code)])
                     ELSE yielded
       /\ pc' = CASE outcome = "fault" -> "done"
                  [] outcome = "clean" -> "yielded0"
                  [] OTHER -> AfterFullParse(code, position)
  /\ currentColumn' = position.column
  /\ deletions' = 0
  /\ UNCHANGED <<code, position, regVars, schemaVars, errVars,
                 indentVars,
                 asyncVars>>

\* The consumer pulls again after the element with deletions 0: lines 75-89.
ResumeAfterFull ==
  /\ pc = "yielded0"
  /\ pc' = AfterFullParse(code, position)
  /\ UNCHANGED <<code, position, currentColumn, deletions, yielded, parsed,
                 firstClean, faulted, regVars, schemaVars, errVars,
                 indentVars,
                 asyncVars>>

\* parsing.ts lines 89-128: one iteration of the loop, and the loop's next
\* test when nothing is yielded.  The call of line 120 is in no try block.
LoopIteration ==
  /\ pc = "loop"
  /\ currentColumn' = currentColumn - 1
  /\ deletions' = deletions + 1
  /\ \E outcome \in ParserOutcomes :
       /\ parsed' = Append(parsed, NewCode(code, position, deletions'))
       /\ faulted' = (faulted \/ outcome = "fault")
       /\ yielded' = IF outcome = "clean"
                     THEN Append(yielded,
                                 [deletions |-> deletions',
                                  code |-> NewCode(code, position, deletions')])
                     ELSE yielded
       /\ pc' = CASE outcome = "fault" -> "threw"
                  [] outcome = "clean" -> "yieldedK"
                  [] OTHER -> IF LoopCond(currentColumn') THEN "loop" ELSE "done"
  /\ UNCHANGED <<code, position, firstClean, regVars, schemaVars, errVars,
                 indentVars,
                 asyncVars>>

\* The consumer pulls again after a reduced element: back to line 89.
ResumeInLoop ==
  /\ pc = "yieldedK"
  /\ pc' = IF LoopCond(currentColumn) THEN "loop" ELSE "done"
  /\ UNCHANGED <<code, position, currentColumn, deletions, yielded, parsed,
                 firstClean, faulted, regVars, schemaVars, errVars,
                 indentVars,
                 asyncVars>>

\* The consumer stops early (leaves its for-of loop): the generator is closed
\* at the yield where it stands.
ConsumerStops ==
  /\ pc \in {"yielded0", "yieldedK"}
  /\ pc' = "closed"
  /\ UNCHANGED <<code, position, currentColumn, deletions, yielded, parsed,
                 firstClean, faulted, regVars, schemaVars, errVars,
                 indentVars,
                 asyncVars>>

\* The buffers and cursors of a request: a cursor row may lie outside the
\* buffer (a chunk of a markdown file); a cursor inside the buffer stands on
\* its line, at most at the line's end.
Buffers == UNION {[1..n -> 0..MaxLineLen] : n \in 1..MaxLines}

Cursors(lens) ==
  {pos \in [row : -1..MaxLines, column : 0..MaxLineLen] :
     pos.row \in 0..(Len(lens) - 1) => pos.column <= lens[pos.row + 1]}

InitParse ==
  /\ RegIdle
  /\ SchemaIdle
  /\ ErrIdle
  /\ IndentIdle
  /\ AsyncIdle
  /\ code \in Buffers
  /\ position \in Cursors(code)
  /\ pc = "start"
  /\ currentColumn = 0
  /\ deletions = 0
  /\ yielded = <<>>
  /\ parsed = <<>>
  /\ firstClean = FALSE
  /\ faulted = FALSE

NextParse ==
  \/ FullParse
  \/ ResumeAfterFull
  \/ LoopIteration
  \/ ResumeInLoop
  \/ ConsumerStops

SpecParse == InitParse /\ [][NextParse]_vars

(***************************************************************************)
(*          schemaType, normalizeSchema, schemaCompletions (schema.ts)     *)
(*                                                                         *)
(* A schema node is a record holding any of the fields                     *)
(*   type (a string), enum (a list), anyOf / oneOf / allOf (lists of       *)
(*   schemas), items, additionalProperties (a schema), properties,         *)
(*   patternProperties (name -> schema), completions (a list of entries),  *)
(*   exhaustiveCompletions (a boolean), documentation (a string),          *)
(*   tags (a list).                                                        *)
(* An entry of a completions list is a string c, written [str |-> c], or   *)
(* a Completion object.                                                    *)
(***************************************************************************)

\* The truth value JavaScript gives to `schema.field` in a condition: an
\* absent field is undefined, false and "" are falsy, every list and object
\* (the empty ones too) is truthy.
Truthy(s, field) ==
  /\ field \in DOMAIN s
  /\ CASE field = "exhaustiveCompletions" -> s[field]
       [] field \in {"type", "documentation"} -> s[field] # ""
       [] OTHER -> TRUE

\* Mutant of schemaType: oneOf is looked at before anyOf.
schemaTypeOneOfFirst(s) ==
  IF Truthy(s, "type") THEN s.type
  ELSE IF Truthy(s, "oneOf") THEN "oneOf"
  ELSE IF Truthy(s, "anyOf") THEN "anyOf"
  ELSE IF Truthy(s, "allOf") THEN "allOf"
  ELSE IF Truthy(s, "enum") THEN "enum"
  ELSE "any"

schemaType(s) ==
  IF Truthy(s, "type") THEN s.type
  ELSE IF Truthy(s, "anyOf") THEN "anyOf"
  ELSE IF Truthy(s, "oneOf") THEN "oneOf"
  ELSE IF Truthy(s, "allOf") THEN "allOf"
  ELSE IF Truthy(s, "enum") THEN "enum"
  ELSE "any"

\* delete schema.field
Delete(s, field) == [k \in (DOMAIN s) \ {field} |-> s[k]]

\* if (schema.field) { delete schema.field; }
DeleteIfTruthy(s, field) == IF Truthy(s, field) THEN Delete(s, field) ELSE s

\* The callback normalizeSchema gives to walkSchema.
StripAuthoring(s) ==
  DeleteIfTruthy(
    DeleteIfTruthy(
      DeleteIfTruthy(
        DeleteIfTruthy(s, "completions"),
        "exhaustiveCompletions"),
      "documentation"),
    "tags")

RECURSIVE walkSchemaStrip(_)
\* walkSchema(schema, f) for the f of normalizeSchema: the node after f has
\* been applied to it and to the nodes the walk visits below it.
walkSchemaStrip(s) ==
  LET d == StripAuthoring(s)
      t == schemaType(d)
      walkList(field) ==
        [d EXCEPT ![field] = [i \in DOMAIN d[field] |-> walkSchemaStrip(d[field][i])]]
      walkProps(n, field) ==
        IF Truthy(n, field)
        THEN [n EXCEPT ![field] = [k \in DOMAIN n[field] |-> walkSchemaStrip(n[field][k])]]
        ELSE n
      walkOne(n, field) ==
        IF Truthy(n, field)
        THEN [n EXCEPT ![field] = walkSchemaStrip(n[field])]
        ELSE n
  IN  CASE t = "array" -> walkOne(d, "items")
        [] t = "anyOf" -> walkList("anyOf")
        [] t = "oneOf" -> walkList("oneOf")
        [] t = "allOf" -> walkList("allOf")
        [] t = "object" ->
             walkOne(walkProps(walkProps(d, "properties"), "patternProperties"),
                     "additionalProperties")
        [] OTHER -> d

\* JSON.parse(JSON.stringify(schema)) of a schema made of JSON values: a new
\* value with the same fields throughout.
RECURSIVE DeepCopy(_)
DeepCopy(s) ==
  [k \in DOMAIN s |->
     CASE k \in {"anyOf", "oneOf", "allOf"} -> [i \in DOMAIN s[k] |-> DeepCopy(s[k][i])]
       [] k \in {"properties", "patternProperties"} ->
            [n \in DOMAIN s[k] |-> DeepCopy(s[k][n])]
       [] k \in {"items", "additionalProperties"} -> DeepCopy(s[k])
       [] OTHER -> s[k]]

normalizeSchema(s) == walkSchemaStrip(DeepCopy(s))

\* typeof c === "string"
IsString(c) == DOMAIN c = {"str"}

\* The `normalize` of schemaCompletions, for one entry c of the list of node s.
normalizeCompletion(c, s) ==
  IF IsString(c)
  THEN [type |-> "value", display |-> c.str, value |-> c.str,
        description |-> "", suggest_on_accept |-> FALSE, schema |-> s]
  ELSE [k \in (DOMAIN c) \cup {"schema"} |-> IF k = "schema" THEN s ELSE c[k]]

\* Mutant of hasCompletions: the length of the list is not looked at.
hasCompletionsNoLength(s) == Truthy(s, "completions")

\* schema.completions && schema.completions.length
hasCompletions(s) == Truthy(s, "completions") /\ Len(s.completions) # 0

RECURSIVE Flat(_)
\* Array.prototype.flat() of a list of lists.
Flat(ls) == IF ls = <<>> THEN <<>> ELSE Head(ls) \o Flat(Tail(ls))

RECURSIVE schemaCompletions(_)
schemaCompletions(s) ==
  LET t == schemaType(s)
      branches(field) == Flat([i \in DOMAIN s[field] |-> schemaCompletions(s[field][i])])
  IN  IF hasCompletions(s)
      THEN [i \in DOMAIN s.completions |-> normalizeCompletion(s.completions[i], s)]
      ELSE CASE t = "array" ->
                  IF Truthy(s, "items") THEN schemaCompletions(s.items) ELSE <<>>
             [] t = "anyOf" -> branches("anyOf")
             [] t = "oneOf" -> branches("oneOf")
             [] t = "allOf" -> branches("allOf")
             [] OTHER -> <<>>

(***************************************************************************)
(* The same functions on objects in memory.  A schema is a graph of        *)
(* JavaScript objects: heap maps the address of each node to its fields,   *)
(* and a field that holds sub-schemas holds their addresses.  The callback *)
(* of normalizeSchema deletes fields of the node it is handed, in place.   *)
(***************************************************************************)
ListFields == {"anyOf", "oneOf", "allOf"}
MapFields == {"properties", "patternProperties"}
NodeFields == {"items", "additionalProperties"}

\* Addresses: where the node was allocated, and the way to it from there.
ArgumentAt == <<[f |-> "argument", i |-> 0, n |-> ""]>>
ParsedAt(h) ==
  <<[f |-> "JSON.parse", i |-> Cardinality({a \in DOMAIN h : Len(a) = 1}), n |-> ""]>>
Child(addr, field, i, name) == Append(addr, [f |-> field, i |-> i, n |-> name])

\* The fields of the node of `tree` allocated at addr.
NodeOf(tree, addr) ==
  [k \in DOMAIN tree |->
     CASE k \in ListFields -> [i \in DOMAIN tree[k] |-> Child(addr, k, i, "")]
       [] k \in MapFields -> [n \in DOMAIN tree[k] |-> Child(addr, k, 0, n)]
       [] k \in NodeFields -> Child(addr, k, 0, "")
       [] OTHER -> tree[k]]

RECURSIVE Allocate(_, _)
\* The nodes (address, fields) of the value `tree` built at addr.
Allocate(tree, addr) ==
  LET lists == UNION {{<<Child(addr, k, i, ""), tree[k][i]>> : i \in DOMAIN tree[k]} :
                        k \in ListFields \cap DOMAIN tree}
      maps == UNION {{<<Child(addr, k, 0, n), tree[k][n]>> : n \in DOMAIN tree[k]} :
                       k \in MapFields \cap DOMAIN tree}
      nodes == {<<Child(addr, k, 0, ""), tree[k]>> : k \in NodeFields \cap DOMAIN tree}
  IN  {<<addr, NodeOf(tree, addr)>>}
      \cup UNION {Allocate(c[2], c[1]) : c \in lists \cup maps \cup nodes}

\* The heap holding the value `tree` at addr and nothing else.
Store(tree, addr) ==
  LET cells == Allocate(tree, addr)
  IN  [a \in {c[1] : c \in cells} |-> (CHOOSE c \in cells : c[1] = a)[2]]

RECURSIVE Load(_, _)
\* The value of the object at addr: what JSON.stringify writes.
Load(h, addr) ==
  LET node == h[addr]
  IN  [k \in DOMAIN node |->
         CASE k \in ListFields -> [i \in DOMAIN node[k] |-> Load(h, node[k][i])]
           [] k \in MapFields -> [n \in DOMAIN node[k] |-> Load(h, node[k][n])]
           [] k \in NodeFields -> Load(h, node[k])
           [] OTHER -> node[k]]

\* The addresses of the object at addr and of everything below it.
RECURSIVE Reach(_, _)
Reach(h, addr) ==
  LET node == h[addr]
  IN  {addr}
      \cup UNION {UNION {Reach(h, node[k][i]) : i \in DOMAIN node[k]} :
                    k \in (ListFields \cup MapFields) \cap DOMAIN node}
      \cup UNION {Reach(h, node[k]) : k \in NodeFields \cap DOMAIN node}

\* Mutant of the deep copy: the argument itself is handed on.
NoCopy(h, addr) == [heap |-> h, root |-> addr]

\* schema.ts line 175: JSON.parse(JSON.stringify(schema)) writes the value of
\* the argument and builds new objects from the text.
JsonCopy(h, addr) ==
  [heap |-> h @@ Store(Load(h, addr), ParsedAt(h)), root |-> ParsedAt(h)]

RECURSIVE walkSchemaInPlace(_, _)
RECURSIVE WalkAll(_, _)
\* walkSchema over the objects at the addresses `todo`, one after another.
WalkAll(h, todo) ==
  IF todo = {} THEN h
  ELSE LET a == CHOOSE x \in todo : TRUE
       IN  WalkAll(walkSchemaInPlace(h, a), todo \ {a})

\* walkSchema(schema, f) for the f of normalizeSchema, on the object at addr:
\* the heap after the walk.
walkSchemaInPlace(h, addr) ==
  LET h1 == [h EXCEPT ![addr] = StripAuthoring(h[addr])]
      d == h1[addr]
      t == schemaType(d)
      below(field) == IF Truthy(d, field)
                      THEN {d[field][k] : k \in DOMAIN d[field]} ELSE {}
  IN  CASE t = "array" ->
             IF Truthy(d, "items") THEN walkSchemaInPlace(h1, d.items) ELSE h1
        [] t \in ListFields -> WalkAll(h1, below(t))
        [] t = "object" ->
             LET h2 == WalkAll(WalkAll(h1, below("properties")),
                               below("patternProperties"))
             IN  IF Truthy(d, "additionalProperties")
                 THEN walkSchemaInPlace(h2, d.additionalProperties) ELSE h2
        [] OTHER -> h1

\* normalizeSchema on the object at addr: the heap after the call and the
\* address of the object returned.
normalizeSchemaInPlace(h, addr) ==
  LET copy == JsonCopy(h, addr)
  IN  [heap |-> walkSchemaInPlace(copy.heap, copy.root), root |-> copy.root]

(***************************************************************************)
(* The schemas the functions are applied to.                               *)
(***************************************************************************)
NoFields == [k \in {} |-> ""]

ObjectEntry == [type |-> "key", display |-> "Key", value |-> "key",
                description |-> "a key", suggest_on_accept |-> TRUE]

\* Values of the authoring-only fields, the falsy and the empty ones included.
AuthoringVariants ==
  { NoFields,
    [completions |-> <<[str |-> "a"]>>],
    [completions |-> <<[str |-> "b"], ObjectEntry>>],
    [completions |-> <<>>],
    [exhaustiveCompletions |-> TRUE],
    [exhaustiveCompletions |-> FALSE],
    [documentation |-> "doc"],
    [documentation |-> ""],
    [tags |-> <<>>],
    [completions |-> <<[str |-> "c"]>>, exhaustiveCompletions |-> TRUE,
     documentation |-> "doc", tags |-> <<"t">>] }

LeafBases ==
  { NoFields, [type |-> "string"], [type |-> "object"], [type |-> "array"],
    [enum |-> <<"x", "y">>], [type |-> "string", enum |-> <<"x">>] }

Leaves == {b @@ a : b \in LeafBases, a \in AuthoringVariants}

\* The nodes used below a parent.
Kids ==
  { [type |-> "string", completions |-> <<[str |-> "a"]>>],
    [type |-> "string", completions |-> <<[str |-> "b"], ObjectEntry>>,
     documentation |-> "doc"],
    [type |-> "boolean", exhaustiveCompletions |-> FALSE],
    [enum |-> <<"x">>, tags |-> <<>>] }

GrandKids ==
  { [type |-> "object",
     properties |-> [p |-> [type |-> "string", completions |-> <<[str |-> "a"]>>]]],
    [anyOf |-> <<[type |-> "string", completions |-> <<[str |-> "a"]>>],
                 [type |-> "string", documentation |-> ""]>>],
    [type |-> "array", completions |-> <<>>,
     items |-> [type |-> "string", completions |-> <<[str |-> "b"]>>]],
    [type |-> "string", tags |-> <<"t">>,
     oneOf |-> <<[enum |-> <<"x">>, completions |-> <<[str |-> "x"]>>]>>] }

\* The lists of at most MaxBranches nodes of `kids`.
Lists(kids) == UNION {[1..n -> kids] : n \in 0..MaxBranches}

\* What a parent holds below it: a combinator list, items, properties,
\* patternProperties or additionalProperties.
Structures(kids) ==
  {[anyOf |-> l] : l \in Lists(kids)}
  \cup {[oneOf |-> l] : l \in Lists(kids)}
  \cup {[allOf |-> l] : l \in Lists(kids)}
  \cup {[items |-> k] : k \in kids}
  \cup {[properties |-> [p |-> k]] : k \in kids}
  \cup {[patternProperties |-> [p |-> k]] : k \in kids}
  \cup {[additionalProperties |-> k] : k \in kids}

\* The other fields of a parent.
Tops ==
  {b @@ a :
     b \in {NoFields, [type |-> "string"], [type |-> "object"], [type |-> "array"]},
     a \in {NoFields, [completions |-> <<[str |-> "c"]>>], [completions |-> <<>>],
            [exhaustiveCompletions |-> FALSE]}}

Parents(kids) == {top @@ st : top \in Tops, st \in Structures(kids)}

\* Every combination of type, anyOf, oneOf, allOf and enum being present.
Optional(field, value) == {NoFields, [k \in {field} |-> value]}

Combinations ==
  {t @@ a @@ o @@ l @@ e :
     t \in Optional("type", "string"),
     a \in Optional("anyOf", <<[type |-> "string", completions |-> <<[str |-> "a"]>>]>>),
     o \in Optional("oneOf", <<[type |-> "boolean", exhaustiveCompletions |-> FALSE]>>),
     l \in Optional("allOf", <<>>),
     e \in Optional("enum", <<"x">>)}

InputSchemas == Leaves \cup Parents(Kids) \cup Parents(GrandKids) \cup Combinations

ApplySchemaType ==
  /\ op = "input"
  /\ op' = "schemaType"
  /\ result' = schemaType(schema)
  /\ UNCHANGED <<schema, heap, returned, regVars, parseVars, errVars, indentVars,
                 asyncVars>>

ApplyNormalizeSchema ==
  /\ op = "input"
  /\ op' = "normalizeSchema"
  /\ result' = normalizeSchema(schema)
  /\ LET r == normalizeSchemaInPlace(heap, ArgumentAt)
     IN  heap' = r.heap /\ returned' = <<r.root>>
  /\ UNCHANGED <<schema, regVars, parseVars, errVars, indentVars,
                 asyncVars>>

ApplySchemaCompletions ==
  /\ op = "input"
  /\ op' = "schemaCompletions"
  /\ result' = schemaCompletions(schema)
  /\ UNCHANGED <<schema, heap, returned, regVars, parseVars, errVars, indentVars,
                 asyncVars>>

\* normalizeSchema applied to the schema it returned
NormalizeResult ==
  /\ op = "normalizeSchema"
  /\ op' = "normalizeSchema again"
  /\ result' = normalizeSchema(result)
  /\ LET r == normalizeSchemaInPlace(heap, returned[1])
     IN  heap' = r.heap /\ returned' = Append(returned, r.root)
  /\ UNCHANGED <<schema, regVars, parseVars, errVars, indentVars,
                 asyncVars>>

InitSchema ==
  /\ RegIdle
  /\ ParseIdle
  /\ ErrIdle
  /\ IndentIdle
  /\ AsyncIdle
  /\ schema \in InputSchemas
  /\ op = "input"
  /\ result = <<>>
  /\ heap = Store(schema, ArgumentAt)
  /\ returned = <<>>

NextSchema ==
  \/ ApplySchemaType
  \/ ApplyNormalizeSchema
  \/ ApplySchemaCompletions
  \/ NormalizeResult

SpecSchema == InitSchema /\ [][NextSchema]_vars

(***************************************************************************)
(* The diagnostic pipeline (errors.ts).                                    *)
(*                                                                         *)
(* A text is a sequence of tokens; a token is a record with one field,     *)
(* named after what it shows.  The rendered text is the concatenation of   *)
(* the tokens, so a text is the empty string exactly when every token of   *)
(* it renders as the empty string.  A key (a path fragment, a property     *)
(* name) is a sequence of characters.                                      *)
(***************************************************************************)
MaxKeyLen == 2      \* characters of an offending or accepted key
MaxKeys == 2        \* keys accepted by the failing schema
MaxCandidates == 2  \* candidate sub-schemas at the instance path

Lit(s) == [lit |-> s]
KeyText(k) == [key |-> k]              \* colors.blue(fragment)
ValueText(v) == [value |-> v]          \* quotedStringColor(verbatim input)
Description(d) == [description |-> d]
PathText(p) == [fullPath |-> p]
LocationText(l) == [location |-> l]
Placeholder(k) == [placeholder |-> k]  \* the characters ${k} of a template

TokenIsEmpty(tok) ==
  \/ "lit" \in DOMAIN tok /\ tok.lit = ""
  \/ "key" \in DOMAIN tok /\ tok.key = <<>>
  \/ "value" \in DOMAIN tok /\ tok.value = ""
  \/ "description" \in DOMAIN tok /\ tok.description = ""
  \/ "fullPath" \in DOMAIN tok /\ \A i \in DOMAIN tok.fullPath : tok.fullPath[i] = <<>>

TextIsEmpty(text) == \A i \in DOMAIN text : TokenIsEmpty(text[i])

\* String.prototype.trim on the verbatim inputs of the model.
BlankTexts == {"", "  "}
Trim(s) == IF s \in BlankTexts THEN "" ELSE s

\* yaml-schema.ts getVerbatimInput: the source text of the violating node.
getVerbatimInput(e) == e.verbatim

\* errors.ts lines 48-51.
isEmptyValue(e) == Trim(getVerbatimInput(e)) = ""

\* errors.ts lines 53-67.  An instance path "/a/0" is the sequence of its
\* fragments; the root path "" has none.  Number(fragment) is a number for a
\* fragment made of digits.
Digits == {"0", "1"}
IsNumber(frag) == frag # <<>> /\ \A i \in DOMAIN frag : frag[i] \in Digits
getLastFragment(instancePath) ==
  IF instancePath = <<>> \/ instancePath[Len(instancePath)] = <<>>
  THEN [typeof |-> "undefined", chars |-> <<"u","n","d","e","f","i","n","e","d">>]
  ELSE IF IsNumber(instancePath[Len(instancePath)])
       THEN [typeof |-> "number", chars |-> instancePath[Len(instancePath)]]
       ELSE [typeof |-> "string", chars |-> instancePath[Len(instancePath)]]

\* errors.ts lines 107-109: params.schema || parentSchema.
HasErrorSchema(e) ==
  "schema" \in DOMAIN e.ajvError.params \/ "parentSchema" \in DOMAIN e.ajvError
ErrorSchema(e) ==
  IF "schema" \in DOMAIN e.ajvError.params
  THEN e.ajvError.params.schema
  ELSE e.ajvError.parentSchema

\* errors.ts lines 101-113.  With an error schema the description is that
\* schema's; without one it is the joined descriptions of the schemas that
\* schema-navigation.ts finds at the failure's schema path.
innerDescription(e) ==
  IF HasErrorSchema(e)
  THEN Description(ErrorSchema(e).description)
  ELSE Description("descriptions at schemaPath")

\* errors.ts lines 119-159.
formatHeading(e) ==
  LET verbatimInput == ValueText(getVerbatimInput(e))
      empty == isEmptyValue(e)
      lastFragment == getLastFragment(e.instancePath)
  IN  CASE lastFragment.typeof = "undefined" ->
             IF empty
             THEN <<Lit("YAML object is missing.")>>
             ELSE <<Lit("YAML object "), verbatimInput, Lit(" must instead "),
                    innerDescription(e)>>
        [] lastFragment.typeof = "number" ->
             IF empty
             THEN <<Lit("Array entry "), KeyText(lastFragment.chars), Lit("+1"),
                    Lit(" is empty but it must instead "), innerDescription(e),
                    Lit(".")>>
             ELSE <<Lit("Array entry "), KeyText(lastFragment.chars), Lit("+1"),
                    Lit(" has value "), verbatimInput, Lit(" must instead "),
                    innerDescription(e), Lit(".")>>
        [] OTHER ->
             IF empty
             THEN <<Lit("Key "), KeyText(lastFragment.chars),
                    Lit(" has empty value but it must instead "),
                    innerDescription(e)>>
             ELSE <<Lit("Key "), KeyText(lastFragment.chars), Lit(" has value "),
                    verbatimInput, Lit(" but it must instead "),
                    innerDescription(e)>>

\* What a handler call leaves behind: the value it returns, and the content of
\* the object it was given once it has returned.
Fresh(e, r) == [returned |-> r, argument |-> e]
InPlace(r) == [returned |-> r, argument |-> r]

\* yaml-schema.ts navigate + mapped-text.ts mappedIndexToRowCol: where the key
\* of the violating node stands in the source.
lastKeyLocation ==
  [start |-> [line |-> 0, column |-> 0], end |-> [line |-> 0, column |-> 2]]

\* errors.ts lines 183-216.
expandEmptySpan(e) ==
  IF \/ e.location.start.line # e.location.end.line
     \/ e.location.start.column # e.location.end.column
     \/ ~isEmptyValue(e)
     \/ getLastFragment(e.instancePath).typeof = "undefined"
  THEN Fresh(e, e)
  ELSE Fresh(e, [e EXCEPT !.location = lastKeyLocation,
                          !.niceError.location = lastKeyLocation])

\* errors.ts lines 161-179.
improveErrorHeading(e) ==
  IF e.ajvError.keyword = "_custom_invalidProperty"
  THEN Fresh(e, e)
  ELSE Fresh(e, [e EXCEPT !.niceError.heading = formatHeading(e)])

\* core/lib/errors.ts addInstancePathInfo, addFileInfo: the lines they push
\* onto the info list of a message.
addInstancePathInfo(info, instancePath) ==
  IF instancePath # <<>>
  THEN Append(info, <<Lit("The error happened in location "),
                      PathText(instancePath), Lit(".")>>)
  ELSE info
addFileInfo(info, src) ==
  IF "fileName" \in DOMAIN src
  THEN Append(info, <<Lit("In file "), Lit(src.fileName)>>)
  ELSE info

\* errors.ts lines 227-253.
checkForTypeMismatch(e) ==
  IF e.ajvError.keyword = "type" /\ getVerbatimInput(e) # ""
  THEN Fresh(e, [e EXCEPT !.niceError =
         [heading |-> formatHeading(e),
          error |-> << <<Lit("The value "), ValueText(getVerbatimInput(e)),
                         Lit(" is a "), Lit(e.violatingObject.result.typeof),
                         Lit(".")>> >>,
          info |-> addFileInfo(addInstancePathInfo(<<>>, e.ajvError.instancePath),
                               e.source),
          location |-> e.niceError.location]])
  ELSE Fresh(e, e)

\* errors.ts lines 269-271.
yesses == {"y", "Y", "yes", "Yes", "YES", "true", "True", "TRUE", "on", "On", "ON"}
nos == {"n", "N", "no", "No", "NO", "false", "False", "FALSE", "off", "Off", "OFF"}

Suggestion1 == <<Lit("Quarto uses YAML 1.2, which interprets booleans strictly.")>>
Suggestion2(fix) == <<Lit("Try using "), ValueText(fix), Lit(" instead.")>>

\* A variant that takes the affirmative literals only.
checkForBadBooleanYesOnly(e) ==
  IF ~ (/\ e.violatingObject.result.typeof = "string"
        /\ e.ajvError.keyword = "type"
        /\ "schema" \in DOMAIN e.ajvError.params
        /\ e.ajvError.params.schema.type = "boolean")
     \/ e.violatingObject.result.value \notin yesses
  THEN Fresh(e, e)
  ELSE Fresh(e, [e EXCEPT !.niceError =
         [heading |-> formatHeading(e),
          error |-> << <<Lit("The value "), ValueText(getVerbatimInput(e)),
                         Lit(" is a string.")>> >>,
          info |-> addFileInfo(addInstancePathInfo(<<>>, e.ajvError.instancePath),
                               e.source)
                   \o <<Suggestion1, Suggestion2("true")>>,
          location |-> e.niceError.location]])

\* errors.ts lines 255-300.
checkForBadBoolean(e) ==
  IF ~ (/\ e.violatingObject.result.typeof = "string"
        /\ e.ajvError.keyword = "type"
        /\ "schema" \in DOMAIN e.ajvError.params
        /\ e.ajvError.params.schema.type = "boolean")
     \/ e.violatingObject.result.value \notin (yesses \cup nos)
  THEN Fresh(e, e)
  ELSE Fresh(e, [e EXCEPT !.niceError =
         [heading |-> formatHeading(e),
          error |-> << <<Lit("The value "), ValueText(getVerbatimInput(e)),
                         Lit(" is a string.")>> >>,
          info |-> addFileInfo(addInstancePathInfo(<<>>, e.ajvError.instancePath),
                               e.source)
                   \o <<Suggestion1,
                        Suggestion2(IF e.violatingObject.result.value \in yesses
                                    THEN "true" ELSE "false")>>,
          location |-> e.niceError.location]])

\* core/lib/text.ts editDistance: the number of single-character insertions,
\* deletions and substitutions that turn one word into the other.
RECURSIVE editDistance(_, _)
editDistance(w1, w2) ==
  IF w1 = <<>> THEN Len(w2)
  ELSE IF w2 = <<>> THEN Len(w1)
  ELSE LET del == editDistance(Tail(w1), w2) + 1
           ins == editDistance(w1, Tail(w2)) + 1
           sub == editDistance(Tail(w1), Tail(w2))
                    + (IF Head(w1) = Head(w2) THEN 0 ELSE 1)
           m == IF del < ins THEN del ELSE ins
       IN  IF sub < m THEN sub ELSE m

\* schema-utils.ts possibleSchemaKeys(resolveSchema({$ref: errorSchema.$id})):
\* the property names the failing schema accepts, in their listed order.
possibleSchemaKeys(s) == s.keys

Infinity == 1000

\* A variant of the loop of lines 385-393 that drops the ties.
RECURSIVE BestKeyNoTies(_, _, _, _)
BestKeyNoTies(keys, lastFragment, bestKey, bestDistance) ==
  IF keys = <<>> THEN [bestKey |-> bestKey, bestDistance |-> bestDistance]
  ELSE LET d == editDistance(Head(keys), lastFragment)
       IN  IF d < bestDistance
           THEN BestKeyNoTies(Tail(keys), lastFragment, <<Head(keys)>>, d)
           ELSE BestKeyNoTies(Tail(keys), lastFragment, bestKey, bestDistance)

\* errors.ts lines 383-393: the loop over the accepted keys.
RECURSIVE BestKey(_, _, _, _)
BestKey(keys, lastFragment, bestKey, bestDistance) ==
  IF keys = <<>> THEN [bestKey |-> bestKey, bestDistance |-> bestDistance]
  ELSE LET d == editDistance(Head(keys), lastFragment)
       IN  IF d < bestDistance
           THEN BestKey(Tail(keys), lastFragment, <<Head(keys)>>, d)
           ELSE IF d = bestDistance
                THEN BestKey(Tail(keys), lastFragment,
                             Append(bestKey, Head(keys)), d)
                ELSE BestKey(Tail(keys), lastFragment, bestKey, bestDistance)

\* errors.ts lines 405-416: the line that names the suggestions.
RECURSIVE JoinSuggestions(_)
JoinSuggestions(suggestions) ==
  IF Len(suggestions) = 1 THEN <<Lit("or "), KeyText(suggestions[1])>>
  ELSE <<KeyText(Head(suggestions)), Lit(", ")>>
         \o JoinSuggestions(Tail(suggestions))
DidYouMean(suggestions) ==
  CASE Len(suggestions) = 1 ->
         <<Lit("Did you mean "), KeyText(suggestions[1]), Lit("?")>>
    [] Len(suggestions) = 2 ->
         <<Lit("Did you mean "), KeyText(suggestions[1]), Lit(" or "),
           KeyText(suggestions[2]), Lit("?")>>
    [] OTHER ->
         <<Lit("Did you mean ")>> \o JoinSuggestions(suggestions) \o <<Lit("?")>>

\* errors.ts lines 360-420.  The cutoff of line 401, bestDistance * 0.3 >
\* lastFragment.length, is 3 * bestDistance > 10 * length in whole numbers.
\* The line is pushed onto the info list of the error received, and that
\* same object is returned.
checkForSimilarKey(e) ==
  LET lastFragment == getLastFragment(e.instancePath).chars
  IN  IF ~HasErrorSchema(e) THEN Fresh(e, e)
      ELSE LET keys == possibleSchemaKeys(ErrorSchema(e))
               best == BestKey(keys, lastFragment, <<>>, Infinity)
           IN  IF Len(keys) = 0 THEN Fresh(e, e)
               ELSE IF 3 * best.bestDistance > 10 * Len(lastFragment)
                    THEN Fresh(e, e)
                    ELSE InPlace([e EXCEPT !.niceError.info =
                                    Append(@, DidYouMean(best.bestKey))])

\* errors.ts lines 308-322.  The fragments of the root path "" are the one
\* empty fragment that "".split("/") gives.
createErrorFragments(e) ==
  LET pathFragments == IF e.instancePath = <<>> THEN << <<>> >>
                       ELSE e.instancePath
  IN  [location |-> LocationText(e.location),
       fullPath |-> PathText(pathFragments),
       key |-> KeyText(pathFragments[Len(pathFragments)]),
       value |-> ValueText(getVerbatimInput(e))]

\* String.prototype.replace with a string pattern: the first occurrence only.
RECURSIVE Replace(_, _, _)
Replace(text, k, v) ==
  IF text = <<>> THEN <<>>
  ELSE IF Head(text) = Placeholder(k) THEN <<v>> \o Tail(text)
       ELSE <<Head(text)>> \o Replace(Tail(text), k, v)

Interpolate(template, e) ==
  LET f == createErrorFragments(e)
  IN  Replace(Replace(Replace(Replace(template, "location", f.location),
                              "fullPath", f.fullPath), "key", f.key),
              "value", f.value)

\* errors.ts lines 324-358; subSchemas is what navigateSchemaByInstancePath
\* found at the error's instance path.
schemaDefinedErrors(e, subSchemas) ==
  IF Len(subSchemas) = 0 THEN Fresh(e, e)
  ELSE IF "errorMessage" \notin DOMAIN subSchemas[1] THEN Fresh(e, e)
  ELSE IF "string" \notin DOMAIN subSchemas[1].errorMessage THEN Fresh(e, e)
  ELSE Fresh(e, [e EXCEPT !.niceError.heading =
                   Interpolate(subSchemas[1].errorMessage.string, e)])

\* A variant of setDefaultErrorHandlers that registers schemaDefinedErrors
\* before improveErrorHeading.
setDefaultErrorHandlersSwapped(validatorHandlers) ==
  validatorHandlers \o <<"expandEmptySpan", "schemaDefinedErrors",
                         "checkForTypeMismatch", "checkForBadBoolean",
                         "checkForSimilarKey", "improveErrorHeading">>

\* yaml-schema.ts YAMLSchema.addHandler: the handler goes to the end of the
\* validator's list.
addHandler(validatorHandlers, handler) == Append(validatorHandlers, handler)

\* errors.ts lines 218-225.
setDefaultErrorHandlers(validatorHandlers) ==
  addHandler(addHandler(addHandler(addHandler(addHandler(addHandler(
    validatorHandlers, "expandEmptySpan"), "improveErrorHeading"),
    "checkForTypeMismatch"), "checkForBadBoolean"), "checkForSimilarKey"),
    "schemaDefinedErrors")

\* The call of one registered handler.
CallHandler(handler, e, subSchemas) ==
  CASE handler = "expandEmptySpan" -> expandEmptySpan(e)
    [] handler = "improveErrorHeading" -> improveErrorHeading(e)
    [] handler = "checkForTypeMismatch" -> checkForTypeMismatch(e)
    [] handler = "checkForBadBoolean" -> checkForBadBoolean(e)
    [] handler = "checkForSimilarKey" -> checkForSimilarKey(e)
    [] handler = "schemaDefinedErrors" -> schemaDefinedErrors(e, subSchemas)

\* The validator is set up: errors.ts lines 218-225.
SetDefaultErrorHandlers ==
  /\ handlers = <<>>
  /\ handlers' = setDefaultErrorHandlers(handlers)
  /\ UNCHANGED <<created, error, subSchema, handled, received, receivedAfter,
                 regVars, parseVars, schemaVars, indentVars,
                 asyncVars>>

\* yaml-schema.ts: the validator hands the error to its next handler and
\* keeps what the handler returns.
RunHandler ==
  /\ handled < Len(handlers)
  /\ LET call == CallHandler(handlers[handled + 1], error, subSchema)
     IN  /\ error' = call.returned
         /\ received' = error
         /\ receivedAfter' = call.argument
  /\ handled' = handled + 1
  /\ UNCHANGED <<handlers, created, subSchema, regVars, parseVars, schemaVars,
                 indentVars,
                 asyncVars>>

\* checkForSimilarKey called on its own (it is exported).
CallCheckForSimilarKey ==
  /\ handled = 0
  /\ LET call == checkForSimilarKey(error)
     IN  /\ error' = call.returned
         /\ received' = error
         /\ receivedAfter' = call.argument
  /\ handled' = 1
  /\ UNCHANGED <<handlers, created, subSchema, regVars, parseVars, schemaVars,
                 indentVars,
                 asyncVars>>

\* ---- the errors and schemas of the model ----
Keywords == {"type", "enum", "_custom_invalidProperty"}

BooleanSchema == [type |-> "boolean", description |-> "be a boolean", keys |-> <<>>]
StringSchema == [type |-> "string", description |-> "", keys |-> <<>>]
ObjectSchema(keys) == [type |-> "object", description |-> "be an object", keys |-> keys]

StringValue(s) == [result |-> [typeof |-> "string", value |-> s], verbatim |-> s]
NumberValue == [result |-> [typeof |-> "number", value |-> "1"], verbatim |-> "1"]
NullValues == {[result |-> [typeof |-> "object", value |-> "null"], verbatim |-> v] :
                 v \in BlankTexts}

\* The span of the violating node: empty for an empty text.
SpanOf(verbatim) ==
  [start |-> [line |-> 1, column |-> 4],
   end |-> [line |-> 1, column |-> IF verbatim = "" THEN 4 ELSE 6]]

\* yaml-schema.ts: the LocalizedError made for one raw failure; its heading
\* is the validation engine's own message.
LocalizedError(ajvError, value) ==
  [ajvError |-> ajvError,
   instancePath |-> ajvError.instancePath,
   violatingObject |-> [result |-> value.result],
   verbatim |-> value.verbatim,
   location |-> SpanOf(value.verbatim),
   niceError |-> [heading |-> <<Lit("message of the validation engine")>>,
                  error |-> <<>>, info |-> <<>>,
                  location |-> SpanOf(value.verbatim)],
   source |-> [fileName |-> "doc.qmd"]]

AjvErrors(keywords, paths, schemas) ==
  {[keyword |-> k, instancePath |-> p, params |-> NoFields] : k \in keywords, p \in paths}
  \cup {[keyword |-> k, instancePath |-> p, params |-> [schema |-> s]] :
          k \in keywords, p \in paths, s \in schemas}
  \cup {[keyword |-> k, instancePath |-> p, params |-> NoFields, parentSchema |-> s] :
          k \in keywords, p \in paths, s \in schemas}

\* The violating values: for a `type` failure every literal of the two sets,
\* another string, a number and an empty node; for the other keywords one of
\* each kind.
ValuesOf(keyword) ==
  {StringValue(s) : s \in IF keyword = "type" THEN yesses \cup nos \cup {"maybe"}
                           ELSE {"yes", "maybe"}}
  \cup {NumberValue} \cup NullValues

PipelinePaths == {<<>>, << <<"1">> >>, << <<"a", "b">> >>}
PipelineSchemas == {BooleanSchema, StringSchema, ObjectSchema(<< <<"a", "a">> >>)}

PipelineErrors ==
  UNION {{LocalizedError(a, v) : v \in ValuesOf(a.keyword)} :
           a \in AjvErrors(Keywords, PipelinePaths, PipelineSchemas)}

\* The candidate sub-schemas: without errorMessage, with a template, with the
\* empty template, with a per-keyword record of templates.
CandidateSchemas ==
  {[type |-> "string"],
   [type |-> "string",
    errorMessage |-> [string |-> <<Lit("Value "), Placeholder("value"),
                                   Lit(" is not allowed for "),
                                   Placeholder("key")>>]],
   [type |-> "string", errorMessage |-> [string |-> <<>>]],
   [type |-> "string", errorMessage |-> [record |-> "by keyword"]]}

CandidateLists == UNION {[1..n -> CandidateSchemas] : n \in 0..MaxCandidates}

InitErrors ==
  /\ RegIdle
  /\ ParseIdle
  /\ SchemaIdle
  /\ IndentIdle
  /\ AsyncIdle
  /\ handlers = <<>>
  /\ created \in PipelineErrors
  /\ error = created
  /\ subSchema \in CandidateLists
  /\ handled = 0
  /\ received = [keyword |-> "idle"]
  /\ receivedAfter = [keyword |-> "idle"]

NextErrors ==
  \/ SetDefaultErrorHandlers
  \/ RunHandler

SpecErrors == InitErrors /\ [][NextErrors]_vars

\* The offending and accepted keys of the checkForSimilarKey requests.  The
\* offending keys begin with "a": an exchange of the two characters turns a
\* request into one of these.  The long key is at a distance of more than
\* 10/3 of the length of the offending key "a".
KeyChars == {"a", "b"}
Words == UNION {[1..n -> KeyChars] : n \in 1..MaxKeyLen}
OffendingKeys == {w \in Words : w[1] = "a"}
LongKey == <<"b", "b", "b", "b">>
AcceptedKeys == UNION {[1..n -> Words] : n \in 0..MaxKeys} \cup {<<LongKey>>}

\* The errors given to checkForSimilarKey: the failing schema accepts the
\* keys of the list; it is the failure's params.schema or its parentSchema.
SimilarKeyErrors(keys) ==
  {LocalizedError(a, StringValue("maybe")) :
     a \in AjvErrors({"_custom_invalidProperty", "type"},
                     {<<w>> : w \in OffendingKeys}, {ObjectSchema(keys)})}

InitSimilarKey ==
  /\ RegIdle
  /\ ParseIdle
  /\ SchemaIdle
  /\ IndentIdle
  /\ AsyncIdle
  /\ handlers = <<>>
  /\ \E keys \in AcceptedKeys : created \in SimilarKeyErrors(keys)
  /\ error = created
  /\ subSchema = <<>>
  /\ handled = 0
  /\ received = [keyword |-> "idle"]
  /\ receivedAfter = [keyword |-> "idle"]

NextSimilarKey == CallCheckForSimilarKey

SpecSimilarKey == InitSimilarKey /\ [][NextSimilarKey]_vars

(***************************************************************************)
(* The indentation locator (parsing.ts: getYamlIndentTree,                 *)
(* locateFromIndentation).                                                 *)
(*                                                                         *)
(* A line is its indentation (the count of its leading whitespace, which   *)
(* for a whitespace-only line is its whole width) and its trimmed text, a  *)
(* sequence of characters.  Arrays are sequences: element i of the code    *)
(* is element i + 1 here.                                                  *)
(***************************************************************************)
MaxYamlLines == 3   \* lines of a buffer given to the locator

At(array, i) == array[i + 1]

\* parsing.ts lines 131-133, on a line of the model.
getIndent(l) == l.indent

\* String.prototype.trim, startsWith("-"), endsWith(":"), substring.
TrimOf(l) == l.trimmed
StartsWithDash(trimmed) == trimmed # <<>> /\ Head(trimmed) = "-"
EndsWithColon(trimmed) == trimmed # <<>> /\ trimmed[Len(trimmed)] = ":"
WithoutLast(trimmed) == SubSeq(trimmed, 1, Len(trimmed) - 1)

\* The walk of lines 160-163, down the predecessor relation.
RECURSIVE WalkDown(_, _, _, _)
WalkDown(v, predecessor, indents, lineIndent) ==
  IF v >= 0 /\ At(indents, v) >= lineIndent
  THEN WalkDown(At(predecessor, v), predecessor, indents, lineIndent)
  ELSE v

\* A variant of the loop body that makes every line its own predecessor.
TreeStepSelf(st, line) ==
  [predecessor |-> Append(st.predecessor, Len(st.indents)),
   indents |-> Append(st.indents, getIndent(line)),
   indentation |-> getIndent(line),
   prevPredecessor |-> Len(st.indents)]

\* parsing.ts lines 143-171: one iteration of the loop, for line i =
\* Len(st.indents).
TreeStep(st, line) ==
  LET i == Len(st.indents)
      lineIndent == getIndent(line)
      indents == Append(st.indents, lineIndent)
  IN  IF lineIndent > st.indentation
      THEN [predecessor |-> Append(st.predecessor, st.prevPredecessor),
            indents |-> indents,
            indentation |-> lineIndent,
            prevPredecessor |-> i]
      ELSE IF Len(TrimOf(line)) = 0
      THEN [st EXCEPT !.indents = indents,
                      !.predecessor = Append(@, At(st.predecessor, st.prevPredecessor))]
      ELSE IF lineIndent = st.indentation
      THEN [st EXCEPT !.indents = indents,
                      !.predecessor = Append(@, At(st.predecessor, st.prevPredecessor)),
                      !.prevPredecessor = i]
      ELSE [predecessor |-> Append(st.predecessor,
                                   WalkDown(st.prevPredecessor, st.predecessor,
                                            indents, lineIndent)),
            indents |-> indents,
            indentation |-> lineIndent,
            prevPredecessor |-> i]

RECURSIVE TreeLoop(_, _)
TreeLoop(st, rest) ==
  IF rest = <<>> THEN st ELSE TreeLoop(TreeStep(st, Head(rest)), Tail(rest))

\* parsing.ts lines 135-173.
getYamlIndentTree(lines) ==
  LET st == TreeLoop([predecessor |-> <<>>, indents |-> <<>>,
                      indentation |-> -1, prevPredecessor |-> -1], lines)
  IN  [predecessor |-> st.predecessor, indentation |-> st.indents]

\* The nearest line at or above lineNumber that is not whitespace, or -1:
\* parsing.ts lines 195-198.
RECURSIVE PrevNonBlank(_, _)
PrevNonBlank(lines, prev) ==
  IF prev >= 0 /\ Len(TrimOf(At(lines, prev))) = 0
  THEN PrevNonBlank(lines, prev - 1)
  ELSE prev

Reverse(s) == [i \in 1..Len(s) |-> s[Len(s) + 1 - i]]

\* A variant of the return that skips path.reverse().
ReturnedPathNotReversed(collected) == collected

\* parsing.ts lines 227-228.
ReturnedPath(collected) == Reverse(collected)

\* parsing.ts lines 175-189: up to the first test of the loop.
LocateStart ==
  /\ lpc = "start"
  /\ indentTree' = getYamlIndentTree(yamlLines)
  /\ lineNo' = context.row
  /\ path' = <<>>
  /\ lpc' = "loop"
  /\ UNCHANGED <<yamlLines, context, visited, regVars, parseVars, schemaVars,
                 errVars,
                 asyncVars>>

\* parsing.ts lines 190-225: one iteration of the loop.
LocateIteration ==
  /\ lpc = "loop"
  /\ lineNo # -1
  /\ visited' = Append(visited, lineNo)
  /\ LET trimmed == TrimOf(At(yamlLines, lineNo))
         lineIndent == context.lineIndent
         prev == PrevNonBlank(yamlLines, lineNo)
         segment == IF StartsWithDash(trimmed) THEN [index |-> 0]
                    ELSE [key |-> WithoutLast(trimmed)]
     IN  IF Len(trimmed) = 0 /\ prev = -1
         THEN lpc' = "break" /\ UNCHANGED <<lineNo, path>>
         ELSE IF Len(trimmed) = 0 /\ getIndent(At(yamlLines, prev)) < lineIndent
         THEN lineNo' = prev /\ UNCHANGED <<lpc, path>>
         ELSE IF /\ lineIndent >= At(indentTree.indentation, lineNo)
                 /\ ~StartsWithDash(trimmed)
                 /\ ~EndsWithColon(trimmed)
                 /\ Len(trimmed) # 0
         THEN lpc' = "threw" /\ UNCHANGED <<lineNo, path>>
         ELSE /\ path' = IF /\ lineIndent >= At(indentTree.indentation, lineNo)
                            /\ Len(trimmed) # 0
                         THEN Append(path, segment)
                         ELSE path
              /\ lineNo' = At(indentTree.predecessor, lineNo)
              /\ UNCHANGED lpc
  /\ UNCHANGED <<yamlLines, context, indentTree, regVars, parseVars, schemaVars,
                 errVars,
                 asyncVars>>

\* parsing.ts lines 227-229: the loop is left, by its test or by the break.
LocateReturn ==
  /\ \/ lpc = "loop" /\ lineNo = -1
     \/ lpc = "break"
  /\ path' = ReturnedPath(path)
  /\ lpc' = "done"
  /\ UNCHANGED <<yamlLines, context, indentTree, lineNo, visited, regVars,
                 parseVars, schemaVars, errVars,
                 asyncVars>>

\* The lines of the model: whitespace-only lines of width 0 to 2, mapping
\* keys, sequence entries and a complete `key: value` line.
BlankLine(n) == [indent |-> n, trimmed |-> <<>>]
KeyLine(n, k) == [indent |-> n, trimmed |-> <<k, ":">>]
DashLine(n) == [indent |-> n, trimmed |-> <<"-", " ", "x">>]
ValueLine(n) == [indent |-> n, trimmed |-> <<"c", ":", " ", "1">>]

YamlLines ==
  {BlankLine(n) : n \in 0..2} \cup {KeyLine(0, "a")}
  \cup {KeyLine(n, "b") : n \in 1..2} \cup {DashLine(n) : n \in 0..1}
  \cup {ValueLine(1)}

YamlBuffers == UNION {[1..n -> YamlLines] : n \in 1..MaxYamlLines}

\* The cursor stands on a line of the buffer; the editing line up to the
\* cursor is a prefix of that line, so its indentation is at most the line's.
LocateContexts(lines) ==
  {c \in [lineIndent : 0..2, row : 0..(Len(lines) - 1)] :
     c.lineIndent <= getIndent(At(lines, c.row))}

InitIndent ==
  /\ RegIdle
  /\ ParseIdle
  /\ SchemaIdle
  /\ ErrIdle
  /\ AsyncIdle
  /\ yamlLines \in YamlBuffers
  /\ context \in LocateContexts(yamlLines)
  /\ indentTree = [predecessor |-> <<>>, indentation |-> <<>>]
  /\ lpc = "start"
  /\ lineNo = -1
  /\ path = <<>>
  /\ visited = <<>>

NextIndent ==
  \/ LocateStart
  \/ LocateIteration
  \/ LocateReturn

SpecIndent == InitIndent /\ [][NextIndent]_vars

\* The locator with its steps taken as long as one is possible (the function
\* runs to completion once called), on buffers of blank, key, sequence and
\* `key: value` lines.
FairLines ==
  {BlankLine(n) : n \in 0..2}
  \cup {KeyLine(0, "a"), KeyLine(1, "b"), DashLine(1), ValueLine(1)}

FairBuffers == UNION {[1..n -> FairLines] : n \in 1..MaxYamlLines}

InitIndentFair ==
  /\ RegIdle
  /\ ParseIdle
  /\ SchemaIdle
  /\ ErrIdle
  /\ AsyncIdle
  /\ yamlLines \in FairBuffers
  /\ context \in LocateContexts(yamlLines)
  /\ indentTree = [predecessor |-> <<>>, indentation |-> <<>>]
  /\ lpc = "start"
  /\ lineNo = -1
  /\ path = <<>>
  /\ visited = <<>>

SpecIndentFair == InitIndentFair /\ [][NextIndent]_vars /\ WF_vars(NextIndent)

(***************************************************************************)
(* getTreeSitter (parsing.ts lines 14-45).  _parser is module-level state; *)
(* a call runs up to its first await, then from one await to the next, and *)
(* other calls may run in between.  Parser.init, new Parser() and          *)
(* Parser.Language.load belong to the web-tree-sitter engine: each either  *)
(* succeeds or fails, chosen per call.  parsers[p] tells whether           *)
(* setLanguage has been called on parser p.                                *)
(***************************************************************************)
Resolve(c, started) ==
  [tsRet EXCEPT ![c] = [parser |-> _parser,
                        hadLanguage |-> parsers[_parser],
                        afterFault |-> started.afterFault]]

\* parsing.ts lines 22-24: setTreeSitter(parser), with a ready parser
SetTreeSitter ==
  /\ ~injected
  /\ parsers' = Append(parsers, TRUE)
  /\ _parser' = Len(parsers) + 1
  /\ injected' = TRUE
  /\ UNCHANGED <<inits, tpc, tsRet, tsFaulted>>
  /\ UNCHANGED tsRest

\* parsing.ts lines 26-34: the call up to `await Parser.init()`
TsCall(c) ==
  /\ tpc[c] = "idle"
  /\ IF _parser # 0
       THEN /\ tpc' = [tpc EXCEPT ![c] = "returned"]
            /\ tsRet' = Resolve(c, [afterFault |-> tsFaulted])
            /\ UNCHANGED inits
       ELSE /\ tpc' = [tpc EXCEPT ![c] = "awaitInit"]
            /\ tsRet' = [tsRet EXCEPT ![c].afterFault = tsFaulted]
            /\ inits' = inits + 1
  /\ UNCHANGED <<_parser, parsers, tsFaulted, injected>>
  /\ UNCHANGED tsRest

\* parsing.ts lines 34-41: Parser.init() settles; on success `new Parser()`
\* is assigned to _parser and the call awaits Parser.Language.load
TsInitDone(c) ==
  /\ tpc[c] = "awaitInit"
  /\ \E initOk, newOk \in BOOLEAN :
       IF initOk /\ newOk
         THEN /\ parsers' = Append(parsers, FALSE)
              /\ _parser' = Len(parsers) + 1
              /\ tpc' = [tpc EXCEPT ![c] = "awaitLoad"]
              /\ UNCHANGED tsFaulted
         ELSE /\ tpc' = [tpc EXCEPT ![c] = "failed"]
              /\ tsFaulted' = TRUE
              /\ UNCHANGED <<_parser, parsers>>
  /\ UNCHANGED <<inits, tsRet, injected>>
  /\ UNCHANGED tsRest

\* parsing.ts lines 39-44: the load settles; on success the language is set
\* on whatever _parser holds now, and that is returned
TsLoadDone(c) ==
  /\ tpc[c] = "awaitLoad"
  /\ \E loadOk \in BOOLEAN :
       IF loadOk
         THEN /\ parsers' = [parsers EXCEPT ![_parser] = TRUE]
              /\ tpc' = [tpc EXCEPT ![c] = "returned"]
              /\ tsRet' = [tsRet EXCEPT ![c] =
                             [parser |-> _parser, hadLanguage |-> TRUE,
                              afterFault |-> tsRet[c].afterFault]]
              /\ UNCHANGED tsFaulted
         ELSE /\ tpc' = [tpc EXCEPT ![c] = "failed"]
              /\ tsFaulted' = TRUE
              /\ UNCHANGED <<parsers, tsRet>>
  /\ UNCHANGED <<_parser, inits, injected>>
  /\ UNCHANGED tsRest

InitTreeSitter ==
  RegIdle /\ ParseIdle /\ SchemaIdle /\ ErrIdle /\ IndentIdle /\ AsyncIdle

NextTreeSitter ==
  \/ SetTreeSitter
  \/ \E c \in TsCalls : TsCall(c)
  \/ \E c \in TsCalls : TsInitDone(c)
  \/ \E c \in TsCalls : TsLoadDone(c)

SpecTreeSitter == InitTreeSitter /\ [][NextTreeSitter]_vars

(***************************************************************************)
(* defineCached (definitions.ts lines 27-62) and define (lines 64-70).     *)
(* The function returned by defineCached(thunk, schemaId) is invoked       *)
(* several times; an invocation runs from one await to the next and the    *)
(* others may run in between.  `schema` is a variable of the closure, so   *)
(* all invocations share it.  The registry is definitionsObject.           *)
(***************************************************************************)
schemaId == "schema-a"

\* common.ts: the schema under another $id
idSchema(s, id) == [s EXCEPT !.id = id]

\* common.ts: a reference to a schema id; `registered` notes whether the
\* registry holds the id when the reference is handed out
refSchema(obj, id) == [ref |-> id, registered |-> id \in DOMAIN obj]

\* definitions.ts lines 35-46: the invocation up to `await thunk()`
DcInvoke(i) ==
  /\ dpc[i] = "idle"
  /\ IF hasSchemaDefinition(definitionsObject, schemaId)
       THEN /\ cachedSchema' = getSchemaDefinition(definitionsObject, schemaId)
            /\ dpc' = [dpc EXCEPT ![i] = "resolved"]
            /\ dcRet' = [dcRet EXCEPT
                           ![i] = refSchema(definitionsObject, cachedSchema'.id)]
            /\ UNCHANGED thunks
       ELSE /\ thunks' = thunks + 1
            /\ dpc' = [dpc EXCEPT ![i] = "awaitThunk"]
            /\ UNCHANGED <<cachedSchema, dcRet>>
  /\ UNCHANGED <<definitionsObject, thunk, funIndex, writes, added>>
  /\ UNCHANGED dcRest

\* definitions.ts lines 46-52 and 64-67: the thunk has resolved; schema is
\* assigned, given the id, and define(schema) runs up to its own await
DcThunkDone(i) ==
  /\ dpc[i] = "awaitThunk"
  /\ cachedSchema' = IF schemaId # thunk.schema.id
                       THEN idSchema(thunk.schema, schemaId)
                       ELSE thunk.schema
  /\ definitionsObject' = define(definitionsObject, cachedSchema')
  /\ writes' = IF definitionsObject' # definitionsObject
                 THEN writes + 1 ELSE writes
  /\ dpc' = [dpc EXCEPT ![i] = "awaitDefine"]
  /\ UNCHANGED <<thunk, funIndex, thunks, added, dcRet>>
  /\ UNCHANGED dcRest

\* definitions.ts lines 53-60: one pass of the errorHandlers loop, or the
\* return when the list is exhausted; runs after define, and after each
\* addValidatorErrorHandler, has settled
DcHandlerLoop(i) ==
  /\ dpc[i] \in {"awaitDefine", "awaitHandler"}
  /\ IF funIndex[i] < Len(thunk.errorHandlers)
       THEN /\ added' = Append(added, thunk.errorHandlers[funIndex[i] + 1])
            /\ funIndex' = [funIndex EXCEPT ![i] = funIndex[i] + 1]
            /\ dpc' = [dpc EXCEPT ![i] = "awaitHandler"]
            /\ UNCHANGED dcRet
       ELSE /\ dpc' = [dpc EXCEPT ![i] = "resolved"]
            /\ dcRet' = [dcRet EXCEPT
                           ![i] = refSchema(definitionsObject, cachedSchema.id)]
            /\ UNCHANGED <<added, funIndex>>
  /\ UNCHANGED <<definitionsObject, thunk, cachedSchema, thunks, writes>>
  /\ UNCHANGED dcRest

\* The thunks of the model: a schema that carries schemaId or another id,
\* with no, one or two error handlers.
Thunks ==
  [schema : [id : SchemaIds, content : {1}],
   errorHandlers : {<<>>, <<"fun-1">>, <<"fun-1", "fun-2">>}]

\* "when running on the CLI ... these definitions will already exist"
Preloaded ==
  {EmptyObject} \cup
  {PropertyWrite(EmptyObject, schemaId, [id |-> schemaId, content |-> c]) :
     c \in Contents}

InitDefineCached ==
  /\ definitionsObject \in Preloaded
  /\ firstReg = EmptyObject
  /\ last = NoCall
  /\ returnedObject = NoObject
  /\ ParseIdle /\ SchemaIdle /\ ErrIdle /\ IndentIdle /\ TsIdle /\ WatchIdle
  /\ InstIdle
  /\ thunk \in Thunks
  /\ cachedSchema = [id |-> "", content |-> 0]
  /\ dpc = [i \in Invocations |-> "idle"]
  /\ funIndex = [i \in Invocations |-> 0]
  /\ thunks = 0
  /\ writes = 0
  /\ added = <<>>
  /\ dcRet = [i \in Invocations |-> NoRef]

NextDefineCached ==
  \/ \E i \in Invocations : DcInvoke(i)
  \/ \E i \in Invocations : DcThunkDone(i)
  \/ \E i \in Invocations : DcHandlerLoop(i)

SpecDefineCached == InitDefineCached /\ [][NextDefineCached]_vars

(***************************************************************************)
(* The dev-server watcher (watch.ts, part_002 lines 102-257).  clients and *)
(* modified belong to the watcher; reloadClients is an async function      *)
(* started by the debounce timer, which does not wait for an earlier run   *)
(* to finish, so runs may overlap at their awaits.  A socket is named by   *)
(* the number of the client it belongs to.                                 *)
(***************************************************************************)
PathKinds == {"input", "other"}

\* part_002 line 192: modified.find(isRenderOnChangeInput)
HasInput(paths) == \E k \in DOMAIN paths : paths[k] = "input"

\* clients.splice(i, 1), i counted from 0
Splice(list, i) ==
  IF i + 1 \in DOMAIN list
  THEN SubSeq(list, 1, i) \o SubSeq(list, i + 2, Len(list))
  ELSE list

\* part_002 lines 206-209: the head of the loop for index i on the list as
\* it is now: the loop ends, or clients[i] is undefined and reading its
\* socket throws, or the send on clients[i].socket is started.
LoopHead(list, i) ==
  IF i < 0 THEN [pc |-> "done", socket |-> 0]
  ELSE IF i + 1 \notin DOMAIN list THEN [pc |-> "threw", socket |-> 0]
  ELSE [pc |-> "awaitSend", socket |-> list[i + 1]]

\* The run r moves to the head of the loop for index i.
EnterLoop(r, list, i, left) ==
  LET head == LoopHead(list, i)
  IN  /\ rpc' = [rpc EXCEPT ![r] = head.pc]
      /\ ri' = [ri EXCEPT ![r] = i]
      /\ rsocket' = [rsocket EXCEPT ![r] = head.socket]
      /\ sent' = IF head.pc = "awaitSend" THEN sent \cup {head.socket} ELSE sent
      /\ rleft' = IF head.pc = "done" THEN [rleft EXCEPT ![r] = left] ELSE rleft

\* part_002 lines 237-250: connect: the accepted socket is pushed
Connect ==
  /\ Len(clients) + Cardinality(removed) < MaxClients
  /\ clients' = Append(clients, Len(clients) + Cardinality(removed) + 1)
  /\ UNCHANGED <<modified, sent, closed, rpc, ri, rsocket, rstart, rleft,
                 removed, unnotified>>
  /\ UNCHANGED watchRest

\* part_002 lines 106-116: a watch event notes the paths it names
WatchEvent ==
  /\ Len(modified) < MaxModified
  /\ \E kind \in PathKinds : modified' = Append(modified, kind)
  /\ UNCHANGED <<clients, sent, closed, rpc, ri, rsocket, rstart, rleft,
                 removed, unnotified>>
  /\ UNCHANGED watchRest

\* part_002 lines 165-209: a run starts; with a render-on-change input among
\* the modified paths it awaits resolveInputTarget, else it clears modified
\* and starts the first send
ReloadStart(r) ==
  /\ rpc[r] = "idle"
  /\ rstart' = [rstart EXCEPT ![r] = {clients[k] : k \in DOMAIN clients}]
  /\ IF HasInput(modified)
       THEN /\ rpc' = [rpc EXCEPT ![r] = "awaitTarget"]
            /\ UNCHANGED <<modified, sent, ri, rsocket, rleft>>
       ELSE /\ modified' = <<>>
            /\ EnterLoop(r, clients, Len(clients) - 1, 0)
  /\ UNCHANGED <<clients, closed, removed, unnotified>>
  /\ UNCHANGED watchRest

\* part_002 lines 194-209: resolveInputTarget has resolved
ReloadTargetDone(r) ==
  /\ rpc[r] = "awaitTarget"
  /\ modified' = <<>>
  /\ EnterLoop(r, clients, Len(clients) - 1, 0)
  /\ UNCHANGED <<clients, closed, rstart, removed, unnotified>>
  /\ UNCHANGED watchRest

\* part_002 lines 206-218: the send has settled (it succeeded, or it failed
\* and the error was displayed); the socket is closed if it is not, index i
\* is spliced out of the list, and the loop goes on with i - 1
ReloadSendDone(r) ==
  /\ rpc[r] = "awaitSend"
  /\ closed' = closed \cup {rsocket[r]}
  /\ clients' = Splice(clients, ri[r])
  /\ LET gone == {clients[k] : k \in DOMAIN clients} \
                   {clients'[k] : k \in DOMAIN clients'}
     IN  /\ removed' = removed \cup gone
         /\ unnotified' = unnotified \cup (gone \ sent)
  /\ EnterLoop(r, clients', ri[r] - 1, Len(modified))
  /\ UNCHANGED <<modified, rstart>>
  /\ UNCHANGED watchRest

InitWatch ==
  RegIdle /\ ParseIdle /\ SchemaIdle /\ ErrIdle /\ IndentIdle /\ AsyncIdle

NextWatch ==
  \/ Connect
  \/ WatchEvent
  \/ \E r \in Runs : ReloadStart(r)
  \/ \E r \in Runs : ReloadTargetDone(r)
  \/ \E r \in Runs : ReloadSendDone(r)

SpecWatch == InitWatch /\ [][NextWatch]_vars

(***************************************************************************)
(* makeInstallerMac and waitForNotaryStatus (installer.ts lines 33-114,    *)
(* 168-196).  Every step is an awaited runCmd: the command either ends     *)
(* without error or its await throws, which ends makeInstallerMac.         *)
(***************************************************************************)
MaxPolls == 4

\* installer.ts lines 63, 67, 71, 81, 99, 107: the commands up to the
\* notarization submission, in program order
Pipeline ==
  <<"codesign deno", "codesign quarto.js", "codesign quarto", "pkgbuild",
    "productsign", "altool --notarize-app">>

NotaryInfo == "altool --notarization-info"
Sleep == "setTimeout"
Staple == "stapler staple"

\* What a poll can report: no Status line, or the text after `Status: `.
Statuses == {"no status", "in progress", "success", "invalid"}

\* Mutant of the status test: whatever is not in progress counts as success.
NotaryStepLenient(status) ==
  CASE status = "no status" -> "poll"
    [] status = "in progress" -> "sleep"
    [] OTHER -> "return"

\* installer.ts lines 181-193: what waitForNotaryStatus does with a poll
NotaryStep(status) ==
  CASE status = "no status" -> "poll"
    [] status = "in progress" -> "sleep"
    [] status = "success" -> "return"
    [] OTHER -> "throw"

Polls == Cardinality({k \in DOMAIN invoked : invoked[k] = NotaryInfo})

\* The command `cmd` is started and awaited.
Invoke(cmd) ==
  /\ ipc' = cmd
  /\ invoked' = Append(invoked, cmd)

\* The await of the current command throws.
Throw ==
  /\ ipc' = "failed"
  /\ failure' = ipc
  /\ UNCHANGED invoked

\* installer.ts lines 33-63
MakeInstallerMac ==
  /\ ipc = "idle"
  /\ Invoke(Pipeline[1])
  /\ UNCHANGED <<succeeded, reported, waitReturned, failure>>
  /\ UNCHANGED instRest

\* installer.ts lines 63-107: a command before the submission ends; the
\* next one is started unless it failed
CommandEnds ==
  /\ \E k \in 1..(Len(Pipeline) - 1) :
       /\ ipc = Pipeline[k]
       /\ \E ok \in BOOLEAN :
            IF ok
            THEN /\ succeeded' = succeeded \cup {ipc}
                 /\ Invoke(Pipeline[k + 1])
                 /\ UNCHANGED failure
            ELSE Throw /\ UNCHANGED succeeded
  /\ UNCHANGED <<reported, waitReturned>>
  /\ UNCHANGED instRest

\* installer.ts lines 107-110, 147-171: the submission ends; with a request
\* id in its output waitForNotaryStatus starts its first poll
SubmissionEnds ==
  /\ ipc = Pipeline[Len(Pipeline)]
  /\ \E ok, hasRequestId \in BOOLEAN :
       IF ok /\ hasRequestId
       THEN /\ succeeded' = succeeded \cup {ipc}
            /\ Invoke(NotaryInfo)
            /\ UNCHANGED failure
       ELSE Throw /\ UNCHANGED succeeded
  /\ UNCHANGED <<reported, waitReturned>>
  /\ UNCHANGED instRest

\* installer.ts lines 170-195, 110-113: a poll ends
PollEnds ==
  /\ ipc = NotaryInfo
  /\ \/ /\ Throw
        /\ UNCHANGED <<reported, waitReturned, succeeded>>
     \/ \E status \in Statuses :
          /\ NotaryStep(status) \in {"poll", "sleep"} => Polls < MaxPolls
          /\ reported' = Append(reported, status)
          /\ CASE NotaryStep(status) = "poll" ->
                    /\ Invoke(NotaryInfo)
                    /\ UNCHANGED <<waitReturned, succeeded, failure>>
               [] NotaryStep(status) = "sleep" ->
                    /\ ipc' = Sleep
                    /\ UNCHANGED <<invoked, waitReturned, succeeded, failure>>
               [] NotaryStep(status) = "return" ->
                    /\ waitReturned' = TRUE
                    /\ succeeded' = succeeded \cup {NotaryInfo}
                    /\ Invoke(Staple)
                    /\ UNCHANGED failure
               [] OTHER ->
                    /\ Throw
                    /\ UNCHANGED <<waitReturned, succeeded>>
  /\ UNCHANGED instRest

\* installer.ts lines 186, 170-171: the 15 seconds are over, the next poll
SleepEnds ==
  /\ ipc = Sleep
  /\ Invoke(NotaryInfo)
  /\ UNCHANGED <<succeeded, reported, waitReturned, failure>>
  /\ UNCHANGED instRest

\* installer.ts lines 113-114
StapleEnds ==
  /\ ipc = Staple
  /\ \E ok \in BOOLEAN :
       IF ok
       THEN /\ succeeded' = succeeded \cup {Staple}
            /\ ipc' = "done"
            /\ UNCHANGED <<invoked, failure>>
       ELSE Throw /\ UNCHANGED succeeded
  /\ UNCHANGED <<reported, waitReturned>>
  /\ UNCHANGED instRest

InitInstaller ==
  RegIdle /\ ParseIdle /\ SchemaIdle /\ ErrIdle /\ IndentIdle /\ AsyncIdle

NextInstaller ==
  \/ MakeInstallerMac
  \/ CommandEnds
  \/ SubmissionEnds
  \/ PollEnds
  \/ SleepEnds
  \/ StapleEnds

SpecInstaller == InitInstaller /\ [][NextInstaller]_vars

(***************************************************************************)
(* Claims about the registry.                                              *)
(***************************************************************************)

\* C1: registration is idempotent and first-wins: a setSchemaDefinition or
\* define call with a schema whose $id is already registered leaves the
\* registry exactly as it was, and every registered id resolves (through
\* getSchemaDefinition) to the schema of the first registration made for it,
\* also when a later registration carried other content.
C1_IdempotentFirstWins ==
  /\ (last.op \in {"set", "define"} /\ last.wasOwn) => last.unchanged
  /\ \A id \in DOMAIN definitionsObject :
       /\ id \in DOMAIN firstReg
       /\ ~getSchemaDefinitionThrows(definitionsObject, id)
       /\ getSchemaDefinition(definitionsObject, id) = firstReg[id]

\* C1 witness: a later registration with different content was made for an id
\* that was already registered.
C1_Witness ==
  /\ last.op \in {"set", "define"}
  /\ last.wasOwn
  /\ last.key \in DOMAIN definitionsObject
  /\ last.ret # definitionsObject[last.key]

\* C8: getSchemaDefinition(key) throws exactly when no schema is registered
\* under key and returns the registered schema otherwise, never changing the
\* registry; hasSchemaDefinition(key) is true exactly when
\* getSchemaDefinition(key) succeeds.
C8_GetThrowsIffUnregistered ==
  /\ last.op = "get" =>
       /\ last.threw <=> ~last.wasOwn
       /\ last.wasOwn => last.ret = definitionsObject[last.key]
       /\ last.unchanged
  /\ last.op = "has" => last.unchanged
  /\ \A key \in Keys :
       hasSchemaDefinition(definitionsObject, key)
         <=> ~getSchemaDefinitionThrows(definitionsObject, key)


(***************************************************************************)
(* Claims about attemptParsesAtLine.                                       *)
(***************************************************************************)

RowIsOutside == position.row < 0 \/ position.row >= Len(code)

\* C2: the sequence stops at the first clean parse: once an element has been
\* yielded there is no further element and no further parser call (the
\* element with deletions k comes from parser call k+1), so a clean
\* full-buffer parse gives a sequence of exactly one element.
C2_StopsAtFirstClean ==
  yielded # <<>> =>
    /\ Len(yielded) = 1
    /\ Len(parsed) = yielded[1].deletions + 1

\* C3: the sequence is finite with strictly increasing deletions: an element
\* with deletions 0 can only be the first one, every later element has a
\* larger value that never exceeds the cursor column, and the parser is
\* invoked at most 1 + column times.
C3_IncreasingBounded ==
  /\ \A i \in DOMAIN yielded :
       /\ yielded[i].deletions \in 0..position.column
       /\ yielded[i].deletions = 0 => i = 1
       /\ \A j \in DOMAIN yielded : i < j => yielded[i].deletions < yielded[j].deletions
  /\ Len(yielded) <= 1 + position.column
  /\ Len(parsed) <= 1 + position.column

\* C3 witness: a finished sequence of three elements, from 1 + column parser
\* calls.
C3_Witness ==
  /\ pc = "done"
  /\ Len(yielded) = 3
  /\ Len(parsed) = 1 + position.column

\* C4 (as claimed): with the cursor row outside the buffer's lines, no element
\* at all is yielded.
C4_OutsideYieldsNothing == RowIsOutside => yielded = <<>>

\* C4 (amended): with the cursor row outside the buffer's lines no reduced
\* parse is attempted and nothing is raised: the parser is called once, on the
\* full buffer, and the only element there can be is that parse, with
\* deletions 0, yielded exactly when it is clean.
C4_OutsideOnlyFullParse ==
  RowIsOutside =>
    /\ Len(parsed) <= 1
    /\ pc \in {"start", "yielded0", "done", "closed"}
    /\ pc # "start" =>
         yielded = IF firstClean
                   THEN <<[deletions |-> 0, code |-> CodeValue(code)]>>
                   ELSE <<>>

\* C4 witness: the sequence of a cursor outside the buffer has ended after
\* yielding the clean full-buffer parse.
C4_Witness ==
  /\ RowIsOutside
  /\ pc = "done"
  /\ Len(yielded) = 1

\* C5: a parser fault on any attempt ends the sequence normally: after a
\* fault the generator has returned (nothing is raised to the consumer), so
\* nothing more is yielded and the parser is not called again.
C5_FaultEndsQuietly == faulted => pc = "done"

\* The buffer with the k characters before the cursor removed.
ExpectedReduced(lens, pos, k) ==
  LET cursor == locF(lens, pos.row, pos.column)
  IN  Substring(0, cursor - k) \o Substring(cursor, CodeLength(lens))

\* C6: the text of the reduced attempt with deletions k is the buffer without
\* exactly the k characters before the cursor, everything else (the text to
\* the right of the cursor included) kept in the buffer's order.
C6_ReducedTextKeepsRest ==
  \A i \in DOMAIN parsed :
    i >= 2 =>
      /\ parsed[i] = ExpectedReduced(code, position, i - 1)
      /\ \A a, b \in DOMAIN parsed[i] : a < b => parsed[i][a] < parsed[i][b]

(***************************************************************************)
(* Claims about the pure schema functions.                                 *)
(***************************************************************************)

Has(s, field) == field \in DOMAIN s

\* C7: schemaType classifies by the precedence type > anyOf > oneOf > allOf >
\* enum > "any": the result is the value of `type` when present, otherwise the
\* first present of anyOf, oneOf, allOf, enum, otherwise "any".
C7_ClassificationPrecedence ==
  op = "schemaType" =>
    result = CASE Has(schema, "type") -> schema.type
               [] ~Has(schema, "type") /\ Has(schema, "anyOf") -> "anyOf"
               [] \A f \in {"type", "anyOf"} : ~Has(schema, f)
                    /\ Has(schema, "oneOf") -> "oneOf"
               [] \A f \in {"type", "anyOf", "oneOf"} : ~Has(schema, f)
                    /\ Has(schema, "allOf") -> "allOf"
               [] \A f \in {"type", "anyOf", "oneOf", "allOf"} : ~Has(schema, f)
                    /\ Has(schema, "enum") -> "enum"
               [] OTHER -> "any"

\* C7 witness: schemas holding several of the fields have been classified: one
\* with type and enum as its type, one with anyOf and oneOf but no type as
\* anyOf.
C7_Witness ==
  /\ op = "schemaType"
  /\ \/ Has(schema, "type") /\ Has(schema, "enum") /\ Has(schema, "anyOf")
        /\ result = "string"
     \/ ~Has(schema, "type") /\ Has(schema, "anyOf") /\ Has(schema, "oneOf")
        /\ Has(schema, "enum") /\ result = "anyOf"

AuthoringFields == {"completions", "exhaustiveCompletions", "documentation", "tags"}

RECURSIVE SubSchemas(_)
\* Every node of a schema tree: the node, and the nodes below it in
\* properties, patternProperties, additionalProperties, items and the
\* anyOf / oneOf / allOf branches.
SubSchemas(s) ==
  {s}
  \cup UNION {UNION {SubSchemas(s[f][i]) : i \in DOMAIN s[f]} :
                f \in {"anyOf", "oneOf", "allOf", "properties", "patternProperties"}
                      \cap DOMAIN s}
  \cup UNION {SubSchemas(s[f]) : f \in {"items", "additionalProperties"} \cap DOMAIN s}

\* C9: the result of normalizeSchema carries none of the authoring-only
\* fields at any node of the schema tree, whatever other fields the node has
\* and whatever value the field holds.
C9_NoAuthoringFieldsLeft ==
  op = "normalizeSchema" =>
    \A n \in SubSchemas(result) : AuthoringFields \cap DOMAIN n = {}

\* The completions claimed for a node, `explicit` telling whether the node's
\* own list is used: one Completion per entry of the list, in its order,
\* tagged with the node; else those of the items of an array node, the
\* concatenation of those of the branches of a combinator node, and none for
\* an object or leaf node.
ClaimedCompletions(s, explicit) ==
  LET tagged(c) ==
        IF IsString(c)
        THEN [display |-> c.str, value |-> c.str, type |-> "value",
              description |-> "", suggest_on_accept |-> FALSE, schema |-> s]
        ELSE [schema |-> s] @@ c
      kind == schemaType(s)
  IN  IF explicit THEN [i \in DOMAIN s.completions |-> tagged(s.completions[i])]
      ELSE IF kind = "array"
        THEN IF Has(s, "items") THEN schemaCompletions(s.items) ELSE <<>>
      ELSE IF kind \in {"anyOf", "oneOf", "allOf"}
        THEN Flat([i \in DOMAIN s[kind] |-> schemaCompletions(s[kind][i])])
      ELSE <<>>

\* C10 (as claimed): a node with an explicit completions list yields exactly
\* the list's entries as Completions and consults no sub-schema; a node
\* without one yields the structural result.
C10_ExplicitListVerbatim ==
  op = "schemaCompletions" =>
    result = ClaimedCompletions(schema, Has(schema, "completions"))

\* C10 (amended): as claimed, for a node with a non-empty completions list; a
\* node with no list or with an empty one yields the structural result.
C10_NonEmptyListVerbatim ==
  op = "schemaCompletions" =>
    result = ClaimedCompletions(schema, Has(schema, "completions")
                                        /\ schema.completions # <<>>)

\* C10 witness: a node with an empty completions list has yielded the
\* completions of its sub-schemas.
C10_Witness ==
  /\ op = "schemaCompletions"
  /\ Has(schema, "completions")
  /\ schema.completions = <<>>
  /\ result # <<>>

\* C11: the completions collected for a schema are deduplicated by value: the
\* list never holds two Completions with the same `value`.
C11_DeduplicatedByValue ==
  op = "schemaCompletions" =>
    \A i, j \in DOMAIN result : i # j => result[i].value # result[j].value

(***************************************************************************)
(* Claims about the diagnostic pipeline.                                   *)
(***************************************************************************)
DefaultHandlers ==
  <<"expandEmptySpan", "improveErrorHeading", "checkForTypeMismatch",
    "checkForBadBoolean", "checkForSimilarKey", "schemaDefinedErrors">>

PipelineDone == handlers # <<>> /\ handled = Len(handlers)

\* The error after the first n handlers of the claimed order, each applied to
\* what the one before it returned.
RECURSIVE AfterHandlers(_)
AfterHandlers(n) ==
  IF n = 0 THEN created
  ELSE CallHandler(DefaultHandlers[n], AfterHandlers(n - 1), subSchema).returned

DeclaresTemplate(s) ==
  "errorMessage" \in DOMAIN s /\ "string" \in DOMAIN s.errorMessage

\* C12: setDefaultErrorHandlers registers exactly the six handlers
\* expandEmptySpan, improveErrorHeading, checkForTypeMismatch,
\* checkForBadBoolean, checkForSimilarKey, schemaDefinedErrors, in this order;
\* each handler receives the error the previous one returned, so that after n
\* handlers the error is the n-fold composition on the error created, and the
\* heading written last (by schemaDefinedErrors) replaces the one written by
\* improveErrorHeading.
C12_SixHandlersInOrder ==
  /\ handlers \in {<<>>, DefaultHandlers}
  /\ handled > 0 => /\ received = AfterHandlers(handled - 1)
                    /\ error = AfterHandlers(handled)
  /\ (PipelineDone /\ subSchema # <<>> /\ DeclaresTemplate(subSchema[1])) =>
       error.niceError.heading = Interpolate(subSchema[1].errorMessage.string, created)

C12_Witness ==
  /\ PipelineDone
  /\ handled = 6
  /\ subSchema # <<>> /\ DeclaresTemplate(subSchema[1])
  /\ AfterHandlers(2).niceError.heading = formatHeading(created)
  /\ AfterHandlers(2).niceError.heading # created.niceError.heading
  /\ error.niceError.heading # formatHeading(created)

\* C13: whenever at least one candidate sub-schema at the error's instance
\* path declares a string errorMessage template, the heading after the
\* pipeline is one of the declared templates, interpolated, whichever position
\* the declaring candidate has.
C13_DeclaredTemplateIsHeading ==
  (PipelineDone /\ \E i \in DOMAIN subSchema : DeclaresTemplate(subSchema[i])) =>
    \E i \in DOMAIN subSchema :
      /\ DeclaresTemplate(subSchema[i])
      /\ error.niceError.heading = Interpolate(subSchema[i].errorMessage.string, created)

\* C14: after the pipeline the heading of every diagnostic is a non-empty
\* string, for every keyword and every schema.
C14_HeadingNonEmpty ==
  PipelineDone => ~TextIsEmpty(error.niceError.heading)

IsSuggested(e, fix) ==
  \E i \in DOMAIN e.niceError.info : e.niceError.info[i] = Suggestion2(fix)

BadBooleanCase(e) ==
  /\ e.ajvError.keyword = "type"
  /\ "schema" \in DOMAIN e.ajvError.params
  /\ e.ajvError.params.schema.type = "boolean"
  /\ e.violatingObject.result.typeof = "string"

\* C17: checkForBadBoolean, for a `type` failure against a boolean schema with
\* a string value s, suggests true when s is an affirmative literal and false
\* when s is a negative one, and returns the error unchanged for every other
\* string, non-string value, keyword and schema; the suggestion is still in
\* the diagnostic after each of the remaining handlers.
C17_BadBooleanSuggestion ==
  /\ (handled > 0 /\ handlers[handled] = "checkForBadBoolean") =>
       LET s == received.violatingObject.result.value
       IN  /\ (BadBooleanCase(received) /\ s \in yesses) =>
                IsSuggested(error, "true") /\ ~IsSuggested(error, "false")
           /\ (BadBooleanCase(received) /\ s \in nos) =>
                IsSuggested(error, "false") /\ ~IsSuggested(error, "true")
           /\ ~(BadBooleanCase(received) /\ s \in yesses \cup nos) =>
                error = received
  /\ (handled >= 4 /\ BadBooleanCase(created)) =>
       LET s == created.violatingObject.result.value
       IN  /\ s \in yesses => IsSuggested(error, "true")
           /\ s \in nos => IsSuggested(error, "false")

C17_Witness ==
  /\ PipelineDone
  /\ BadBooleanCase(created)
  /\ created.violatingObject.result.value = "On"
  /\ IsSuggested(error, "true")
  /\ subSchema # <<>> /\ DeclaresTemplate(subSchema[1])
  /\ error.niceError.heading = Interpolate(subSchema[1].errorMessage.string, created)

\* C18: every default handler leaves the error object it received with the
\* content it had before the call.
C18_HandlersArePure ==
  handled > 0 => receivedAfter = received

(***************************************************************************)
(* Claims about checkForSimilarKey.                                        *)
(***************************************************************************)
SimilarKeyCase ==
  /\ handled = 1
  /\ HasErrorSchema(received)
  /\ possibleSchemaKeys(ErrorSchema(received)) # <<>>

OffendingKey == getLastFragment(received.instancePath).chars
AcceptedKeyList == possibleSchemaKeys(ErrorSchema(received))

MinimalDistance ==
  LET ds == {editDistance(AcceptedKeyList[i], OffendingKey) : i \in DOMAIN AcceptedKeyList}
  IN  CHOOSE d \in ds : \A x \in ds : d <= x

MinimalSet ==
  LET IsMinimal(key) == editDistance(key, OffendingKey) = MinimalDistance
  IN  SelectSeq(AcceptedKeyList, IsMinimal)

LineAdded == Len(error.niceError.info) = Len(received.niceError.info) + 1

\* C15: the keys checkForSimilarKey suggests are exactly the accepted keys at
\* minimal edit distance from the offending key, all ties kept, in the order
\* the accepted keys are listed.
C15_MinimalDistanceSet ==
  SimilarKeyCase =>
    \/ error = received
    \/ /\ LineAdded
       /\ error.niceError.info[Len(error.niceError.info)] = DidYouMean(MinimalSet)

C15_Witness ==
  /\ SimilarKeyCase
  /\ LineAdded
  /\ Len(MinimalSet) = 2
  /\ MinimalSet[1] # MinimalSet[2]
  /\ MinimalDistance > 0

\* C16: with L the length of the offending key and d the minimal distance, no
\* 'Did you mean' line is added when 10*d > 3*L, and one is added when
\* 10*d <= 3*L.
C16_ThirtyPercentCutoff ==
  SimilarKeyCase =>
    /\ 10 * MinimalDistance > 3 * Len(OffendingKey) => ~LineAdded
    /\ 10 * MinimalDistance <= 3 * Len(OffendingKey) => LineAdded

\* C25: checkForSimilarKey acts only on unrecognized-key failures: for an
\* error whose keyword is not the invalid-property keyword it adds no 'Did
\* you mean' line.
C25_OnlyInvalidProperty ==
  (handled = 1 /\ received.ajvError.keyword # "_custom_invalidProperty") =>
    error = received /\ ~LineAdded

(***************************************************************************)
(* Claims about the indentation locator.                                   *)
(***************************************************************************)
LineNumbers == 0..(Len(yamlLines) - 1)
IsBlank(i) == Len(TrimOf(At(yamlLines, i))) = 0

\* The nearest non-blank line above i with strictly smaller indentation.
NearestSmaller(i) ==
  LET above == {j \in LineNumbers :
                  /\ j < i
                  /\ ~IsBlank(j)
                  /\ getIndent(At(yamlLines, j)) < getIndent(At(yamlLines, i))}
  IN  IF above = {} THEN -1 ELSE CHOOSE j \in above : \A k \in above : k <= j

TreeBuilt == lpc \notin {"idle", "start"}

\* C19: in the index getYamlIndentTree builds, the predecessor of every
\* non-blank line is the nearest preceding non-blank line with strictly
\* smaller indentation, or -1 when there is none; a blank line, whatever its
\* width, is never the predecessor of another line.
C19_NearestSmallerIndent ==
  TreeBuilt =>
    /\ \A i \in LineNumbers :
         ~IsBlank(i) => At(indentTree.predecessor, i) = NearestSmaller(i)
    /\ \A i \in LineNumbers :
         At(indentTree.predecessor, i) # -1 => ~IsBlank(At(indentTree.predecessor, i))


VisitedLines == {visited[k] : k \in DOMAIN visited}

\* The cursor line and its chain of predecessors in the index.
RECURSIVE ChainFrom(_)
ChainFrom(i) ==
  IF i = -1 THEN {} ELSE {i} \cup ChainFrom(At(indentTree.predecessor, i))

Qualifies(i) ==
  /\ context.lineIndent >= getIndent(At(yamlLines, i))
  /\ StartsWithDash(TrimOf(At(yamlLines, i))) \/ EndsWithColon(TrimOf(At(yamlLines, i)))

SegmentOf(i) ==
  IF StartsWithDash(TrimOf(At(yamlLines, i))) THEN [index |-> 0]
  ELSE [key |-> WithoutLast(TrimOf(At(yamlLines, i)))]

\* The segments of the qualifying lines of the chain below line n, by
\* increasing line number.
RECURSIVE SegmentsBelow(_)
SegmentsBelow(n) ==
  IF n = 0 THEN <<>>
  ELSE IF (n - 1) \in ChainFrom(context.row) /\ Qualifies(n - 1)
       THEN Append(SegmentsBelow(n - 1), SegmentOf(n - 1))
       ELSE SegmentsBelow(n - 1)

\* C20: locateFromIndentation returns a root-to-leaf path: the walk starts at
\* the cursor line and goes up its chain of predecessors, to ever smaller line
\* numbers, and passes every qualifying line of the chain; each qualifying
\* line contributes exactly one segment (0 for a line that begins with '-',
\* otherwise the trimmed text without its final ':'), and the list returned
\* holds these segments by increasing line number, the reverse of the
\* visiting order.
C20_RootToLeafPath ==
  lpc = "done" =>
    /\ visited # <<>> /\ visited[1] = context.row
    /\ VisitedLines \subseteq ChainFrom(context.row)
    /\ \A k \in 1..(Len(visited) - 1) : visited[k + 1] < visited[k]
    /\ \A i \in ChainFrom(context.row) : Qualifies(i) => i \in VisitedLines
    /\ path = SegmentsBelow(Len(yamlLines))

C20_Witness ==
  /\ lpc = "done"
  /\ Len(path) = 3
  /\ path[1] = [key |-> <<"a">>]
  /\ path[2] = [index |-> 0]
  /\ path[3] = [key |-> <<"b">>]


\* C21: the internal errors of the indentation locator are unreachable: for
\* every buffer and every cursor row inside it, locateFromIndentation returns
\* without raising one, also when the cursor line or an ancestor is a complete
\* `key: value` line.
C21_NoInternalError == lpc # "threw"

PredecessorsSmaller ==
  \A i \in LineNumbers :
    /\ i + 1 \in DOMAIN indentTree.predecessor
    /\ At(indentTree.predecessor, i) \in -1..(i - 1)

VisitsDecrease ==
  \A k \in 1..(Len(visited) - 1) : visited[k + 1] < visited[k]

LocateEnded == lpc \in {"done", "threw"}

\* C28: locateFromIndentation terminates for every buffer and every in-range
\* cursor row: every predecessor[i] of the index is defined and lies in
\* -1 .. i-1, every iteration of the walk (the jump from a blank line
\* included) moves to a strictly smaller line number, and the call ends.
C28_Terminates ==
  /\ [](TreeBuilt => (PredecessorsSmaller /\ VisitsDecrease))
  /\ <>LocateEnded

C28_Witness ==
  /\ lpc = "done"
  /\ lineNo = -1
  /\ Len(visited) >= 2
  /\ \E k \in 1..(Len(visited) - 1) :
       /\ IsBlank(visited[k])
       /\ visited[k + 1] # At(indentTree.predecessor, visited[k])


(***************************************************************************)
(* Claims about getTreeSitter.                                             *)
(***************************************************************************)
Returned(c) == tpc[c] = "returned"

\* C22: when no parser was injected, under every interleaving of
\* getTreeSitter calls the engine is initialised and a parser constructed at
\* most once, and every call resolves to that one parser, with its language
\* set by then.
C22_InitialisedOnce ==
  ~injected =>
    /\ inits <= 1
    /\ Len(parsers) <= 1
    /\ \A c \in TsCalls :
         Returned(c) => tsRet[c].parser = 1 /\ tsRet[c].hadLanguage

\* C23: a fault during initialisation fails the call it happens in, and no
\* call made after it returns a parser that has no language set.
C23_FaultSurfaced ==
  /\ tsFaulted => \E c \in TsCalls : tpc[c] = "failed"
  /\ \A c \in TsCalls :
       (Returned(c) /\ tsRet[c].afterFault) => tsRet[c].hadLanguage


(***************************************************************************)
(* Claims about defineCached.                                              *)
(***************************************************************************)
TimesAdded(fun) == Cardinality({k \in DOMAIN added : added[k] = fun})

\* C24: for any interleaving of invocations of the function returned by
\* defineCached for one schemaId, the thunk is evaluated at most once, the
\* schema is registered once, each error handler is added at most once, and
\* every invocation resolves to a reference to schemaId that is registered
\* by then.
C24_LoadedOnce ==
  /\ thunks <= 1
  /\ writes <= 1
  /\ \A k \in DOMAIN added : TimesAdded(added[k]) <= 1
  /\ \A i \in Invocations :
       dpc[i] = "resolved" =>
         dcRet[i].ref = schemaId /\ dcRet[i].registered


(***************************************************************************)
(* Claims about normalizeSchema on objects in memory.                      *)
(***************************************************************************)
Normalized == op \in {"normalizeSchema", "normalizeSchema again"}

\* The objects of the argument, as they were before the call.
ArgumentBefore == Store(schema, ArgumentAt)

\* C26: normalizeSchema works on a deep copy: the argument is unchanged at
\* every nesting level and the registry is unchanged, the returned object
\* shares no node with the argument, and normalizeSchema applied to its own
\* result returns an equal schema.
C26_WorksOnDeepCopy ==
  Normalized =>
    /\ \A a \in DOMAIN ArgumentBefore : heap[a] = ArgumentBefore[a]
    /\ definitionsObject = EmptyObject
    /\ \A k \in DOMAIN returned :
         /\ Reach(heap, returned[k]) \cap Reach(heap, ArgumentAt) = {}
         /\ \A j \in DOMAIN returned :
              j # k => Reach(heap, returned[k]) \cap Reach(heap, returned[j]) = {}
    /\ op = "normalizeSchema again" =>
         /\ Load(heap, returned[2]) = Load(heap, returned[1])
         /\ Load(heap, returned[1]) = normalizeSchema(schema)

\* normalizeSchema was applied twice to a nested schema from which it
\* removed a field below the top.
C26_Witness ==
  /\ op = "normalizeSchema again"
  /\ Cardinality(Reach(heap, ArgumentAt)) >= 3
  /\ \E a \in Reach(heap, ArgumentAt) :
       /\ Len(a) >= 2
       /\ "completions" \in DOMAIN heap[a]
  /\ \A a \in Reach(heap, returned[1]) : "completions" \notin DOMAIN heap[a]


(***************************************************************************)
(* Claims about the registry as a whole.                                   *)
(***************************************************************************)
\* Every entry of the registry is kept, with the same schema, by the step.
EntriesKept ==
  \A k \in DOMAIN definitionsObject :
    /\ k \in DOMAIN definitionsObject'
    /\ definitionsObject'[k] = definitionsObject[k]

\* C27: the registry only grows and its entries are stable: whatever calls
\* are made, every id ever registered stays registered with the same schema,
\* every entry is stored under its schema's $id, and adding keys to or
\* deleting keys from an object returned by getSchemaDefinitionsObject does
\* not alter what the registry holds.
C27_GrowsAndStable ==
  /\ [][EntriesKept]_vars
  /\ [](\A k \in DOMAIN definitionsObject : definitionsObject[k].id = k)
  /\ [](last.op \in {"getObject", "change"} => last.unchanged)

\* A registered key was deleted from a returned object after which the
\* registry grew.
C27_Witness ==
  /\ returnedObject.given
  /\ last.op = "change"
  /\ last.key \in DOMAIN definitionsObject
  /\ last.key \notin DOMAIN returnedObject.props
  /\ Cardinality(DOMAIN definitionsObject) = 2
  /\ Cardinality(DOMAIN returnedObject.props) = 0


(***************************************************************************)
(* Claims about the dev-server watcher.                                    *)
(***************************************************************************)
Listed == {clients[k] : k \in DOMAIN clients}

\* C29: no client is dropped without being notified, under every
\* interleaving of connections and reload runs: a client leaves the list
\* only after a send was attempted on its own socket; when a run has ended,
\* every client listed at its start is off the list with its socket closed;
\* and the list of modified paths is empty when a run ends.
C29_NoClientDropped ==
  /\ unnotified = {}
  /\ \A r \in Runs :
       rpc[r] = "done" =>
         /\ rstart[r] \cap Listed = {}
         /\ rstart[r] \subseteq closed
         /\ rleft[r] = 0


(***************************************************************************)
(* Claims about makeInstallerMac.                                          *)
(***************************************************************************)
\* The commands started that are not polls, in order.
Started == SelectSeq(invoked, LAMBDA c : c # NotaryInfo)

IsPrefix(short, long) ==
  /\ Len(short) <= Len(long)
  /\ \A k \in DOMAIN short : short[k] = long[k]

\* C30: makeInstallerMac runs its steps in a fixed order and staples only a
\* notarized package: the three code signings, pkgbuild, productsign and
\* the submission start in that order; waitForNotaryStatus returns only
\* after a poll reported 'success', goes on polling after 'in progress' and
\* throws on any other reported status; stapleNotary starts only after
\* waitForNotaryStatus returned and never after a failed step.
C30_FixedOrderAndStaple ==
  /\ IsPrefix(Started, Append(Pipeline, Staple))
  /\ NotaryInfo \in {invoked[k] : k \in DOMAIN invoked} =>
       \A k \in DOMAIN Pipeline : Pipeline[k] \in succeeded
  /\ waitReturned =>
       reported # <<>> /\ reported[Len(reported)] = "success"
  /\ \A k \in DOMAIN reported :
       /\ k < Len(reported) => reported[k] \in {"in progress", "no status"}
       /\ (k = Len(reported) /\ reported[k] = "in progress") =>
            /\ ~waitReturned
            /\ ipc = Sleep \/ Polls = Len(reported) + 1
       /\ reported[k] \notin {"in progress", "no status", "success"} =>
            /\ ipc = "failed" /\ failure = NotaryInfo
            /\ ~waitReturned
  /\ Staple \in {invoked[k] : k \in DOMAIN invoked} =>
       /\ waitReturned
       /\ failure \in {"", Staple}
       /\ \A k \in DOMAIN Pipeline : Pipeline[k] \in succeeded

\* The installer was stapled after a poll that found the notarization in
\* progress and a later one that found it done.
C30_Witness ==
  /\ ipc = "done"
  /\ Len(reported) >= 2
  /\ reported[1] = "in progress"
  /\ Staple \in succeeded

=============================================================================
